---------------------------- MODULE Spec2Model ----------------------------
(***************************************************************************)
(* o3-search-mcp: the "ask-gpt-o3-extremely-smart" handler (its bounded    *)
(* N-stage tool loop), the tool dispatcher and its confirmation gate, the  *)
(* git diff builder, the result normalizer and the conversation store.     *)
(*                                                                         *)
(* Texts are sequences of tokens: a token is one character ("a", " ",      *)
(* "\n", "-", ...) or one fixed literal of the source.  Concatenation is   *)
(* \o.  An optional value (undefined in the source) is a tuple of length   *)
(* 0 or 1: None, Some(x).                                                  *)
(***************************************************************************)
EXTENDS Integers, Sequences, FiniteSets, TLC

(***************************************************************************)
(* Bounds of the model.                                                    *)
(***************************************************************************)
\* The iteration caps explored: maxDepth ranges over 1..MaxCap.
MaxCap == 3
\* git references of SpecDiff are all strings of at most MaxRefLen characters
\* over RefAlphabet, together with the three examples of the documentation.
MaxRefLen == 2
\* The operations on the store (requests answered and resets) of one behaviour
\* of SpecStore.
MaxOps == 3
\* The content lines of a diff explored by SpecSummary.
MaxDiffLines == 3
\* Most content items of a backend result.
MaxItems == 2
\* Most file paths of a request.
MaxPaths == 3
\* Most entries of a stored conversation.
MaxEntries == 3
\* Most backend connections a session creates.
MaxConnections == 3

(***************************************************************************)
(* Optional values and texts.                                              *)
(***************************************************************************)
None == <<>>
Some(x) == <<x>>
IsSome(m) == Len(m) = 1
Get(m) == m[1]

\* JavaScript truthiness of a string: the empty string is falsy.
Truthy(s) == Len(s) > 0
\* Truthiness of an optional string: undefined and "" are falsy.
TruthyOpt(m) == IsSome(m) /\ Truthy(Get(m))

WhiteSpace == {" ", "\n", "\t"}

RECURSIVE TrimStart(_)
TrimStart(t) ==
  IF Len(t) > 0 /\ Head(t) \in WhiteSpace THEN TrimStart(Tail(t)) ELSE t

RECURSIVE TrimEnd(_)
TrimEnd(t) ==
  IF Len(t) > 0 /\ t[Len(t)] \in WhiteSpace
  THEN TrimEnd(SubSeq(t, 1, Len(t) - 1))
  ELSE t

\* String.prototype.trim
Trim(t) == TrimEnd(TrimStart(t))

\* Array.prototype.join: the texts of ts separated by sep.
RECURSIVE Join(_, _)
Join(ts, sep) ==
  IF Len(ts) = 0 THEN <<>>
  ELSE IF Len(ts) = 1 THEN ts[1]
  ELSE ts[1] \o sep \o Join(Tail(ts), sep)

(***************************************************************************)
(* Diff builder: executeDiff.                                              *)
(***************************************************************************)
Letters ==
  {"a","b","c","d","e","f","g","h","i","j","k","l","m","n","o","p","q","r","s",
   "t","u","v","w","x","y","z","A","B","C","D","E","F","G","H","I","J","K","L",
   "M","N","O","P","Q","R","S","T","U","V","W","X","Y","Z"}
Digits == {"0","1","2","3","4","5","6","7","8","9"}
\* The character class [a-zA-Z0-9/_.\-~^] of refPattern.
RefChars == Letters \cup Digits \cup {"/", "_", ".", "-", "~", "^"}

\* A mutation of refPattern: the negative lookahead (?!-) is lost.
RefPatternNoLookahead(s) ==
  Len(s) >= 1 /\ \A i \in 1..Len(s) : s[i] \in RefChars

\* refPattern.test(s) for /^(?!-)[a-zA-Z0-9/_.\-~^]+$/
RefPattern(s) ==
  /\ Len(s) >= 1
  /\ s[1] # "-"
  /\ \A i \in 1..Len(s) : s[i] \in RefChars

\* The validation of executeDiff: TRUE when it throws "Invalid git reference
\* format".  `to` is checked only when it is truthy.
DiffRefsRejected(from, to) ==
  \/ ~RefPattern(from)
  \/ (TruthyOpt(to) /\ ~RefPattern(Get(to)))

BaseArgs == << <<"--no-pager">>, <<"diff">>, <<"--no-ext-diff">>, <<"--no-color">> >>
DashDash == <<"-", "-">>
HEAD == <<"H", "E", "A", "D">>

\* A mutation of the argument vector: `unstaged` is not looked at.
DiffArgsUnstagedIgnored(from, to, unstaged) ==
  IF TruthyOpt(to) THEN BaseArgs \o <<from, Get(to)>>
  ELSE BaseArgs \o <<from, DashDash>>

\* The argument vector executeDiff hands to execFile('git', args).
DiffArgs(from, to, unstaged) ==
  IF TruthyOpt(to) THEN BaseArgs \o <<from, Get(to)>>
  ELSE IF unstaged # Some(FALSE) THEN BaseArgs \o <<from, DashDash>>
  ELSE BaseArgs \o <<from, HEAD>>

\* 'git ' + args.join(' ')
DiffCommand(args) == <<"git", " ">> \o Join(args, <<" ">>)

\* Limit of executeDiff on the number of lines of a diff.
DiffLineLimit == 10000

StartsWith(line, prefix) ==
  Len(line) >= Len(prefix) /\ SubSeq(line, 1, Len(prefix)) = prefix

\* String.prototype.split(' '): the pieces of a line between blanks.
RECURSIVE SplitBlank(_, _)
SplitBlank(line, cur) ==
  IF Len(line) = 0 THEN <<cur>>
  ELSE IF Head(line) = " " THEN <<cur>> \o SplitBlank(Tail(line), <<>>)
  ELSE SplitBlank(Tail(line), Append(cur, Head(line)))

\* String.prototype.replace('b/', ''): the first occurrence is removed.
RECURSIVE DropFirstB(_)
DropFirstB(t) ==
  IF Len(t) < 2 THEN t
  ELSE IF t[1] = "b" /\ t[2] = "/" THEN SubSeq(t, 3, Len(t))
  ELSE <<Head(t)>> \o DropFirstB(Tail(t))

DiffGitPrefix == <<"d","i","f","f"," ","-","-","g","i","t">>

AddedLines(lines) ==
  Len(SelectSeq(lines, LAMBDA l : StartsWith(l, <<"+">>) /\ ~StartsWith(l, <<"+","+","+">>)))
RemovedLines(lines) ==
  Len(SelectSeq(lines, LAMBDA l : StartsWith(l, <<"-">>) /\ ~StartsWith(l, <<"-","-","-">>)))
\* line.split(' ')[3]?.replace('b/', '') || ''
ChangedFileOf(line) ==
  LET parts == SplitBlank(line, <<>>)
  IN IF Len(parts) >= 4 THEN DropFirstB(parts[4]) ELSE <<>>
ChangedFiles(lines) ==
  Cardinality({ f \in { ChangedFileOf(lines[i]) :
                          i \in { j \in 1..Len(lines) : StartsWith(lines[j], DiffGitPrefix) } } :
                Truthy(f) })

DiffSummary(lines) ==
  << ToString(ChangedFiles(lines)), " files changed, ",
     ToString(AddedLines(lines)), " insertions(+), ",
     ToString(RemovedLines(lines)), " deletions(-)" >>

\* What git gave back: execFile either rejects (threw) or resolves with
\* stdout and stderr.  stdout is kept as its lines (stdout.split('\n')):
\* `lines` holds the leading lines and `more` counts further unchanged
\* context lines after them.
GitLineCount(out) == Len(out.lines) + out.more

\* stderr && !stderr.includes('warning')
StderrIsFailure(stderr) ==
  Truthy(stderr) /\ ~(\E i \in 1..Len(stderr) : stderr[i] = "warning")

\* TRUE when executeDiff throws after git ran.
DiffRunFails(out) ==
  \/ out.threw
  \/ StderrIsFailure(out.stderr)
  \/ GitLineCount(out) > DiffLineLimit

DiffErrorMessage(from, to, out) ==
  IF ~RefPattern(from) THEN <<"Invalid git reference format: ">> \o from
  ELSE IF TruthyOpt(to) /\ ~RefPattern(Get(to))
    THEN <<"Invalid git reference format: ">> \o Get(to)
  ELSE IF out.threw THEN <<"Command failed">>
  ELSE IF StderrIsFailure(out.stderr) THEN <<"Git diff failed: ">> \o out.stderr
  ELSE <<"Diff too large (", ToString(GitLineCount(out)), " lines, limit: 10,000)">>

\* The value executeDiff returns.
DiffResult(args, out) ==
  [ content   |-> out.lines,
    more      |-> out.more,
    summary   |-> DiffSummary(out.lines),
    command   |-> DiffCommand(args),
    lineCount |-> GitLineCount(out) ]

(***************************************************************************)
(* Result normalizer and the tool functions (claudeTools).                 *)
(*                                                                         *)
(* A backend result is [content, isError]: content is None (missing),      *)
(* Some(<<>>) (an empty list) or Some(items).  An item is                  *)
(* [type, text, data, mimeType, resource], resource being None or          *)
(* Some([text, uri]).  text is None (no such field) or Some(t), t possibly *)
(* empty; in the other fields an empty text stands for a missing field.    *)
(***************************************************************************)
TextItem(t) == [type |-> "text", text |-> t]

McpItem(type, text, data, mimeType, resource) ==
  [type |-> type, text |-> text, data |-> data, mimeType |-> mimeType,
   resource |-> resource]

\* JSON.stringify(item), kept to the type and text fields.
JsonOfItem(item) ==
  <<"{\"type\":\"", item.type, "\"">>
  \o (IF IsSome(item.text) THEN <<",\"text\":\"">> \o Get(item.text) \o <<"\"">> ELSE <<>>)
  \o <<"}">>

NormalizeItem(item) ==
  IF item.type = "text" /\ IsSome(item.text) /\ Truthy(Get(item.text))
    THEN TextItem(Get(item.text))
  ELSE IF item.type = "image" /\ Truthy(item.data)
    THEN TextItem(<<"[Image data: ">>
                  \o (IF Truthy(item.mimeType) THEN item.mimeType ELSE <<"unknown">>)
                  \o <<"]">>)
  ELSE IF item.type = "resource" /\ IsSome(item.resource)
    THEN TextItem(IF Truthy(Get(item.resource).text) THEN Get(item.resource).text
                  ELSE IF Truthy(Get(item.resource).uri) THEN Get(item.resource).uri
                  ELSE <<"[Resource]">>)
  ELSE TextItem(JsonOfItem(item))

NoContentText == <<"No content received from Claude tool">>

\* normalizeMcpResult
NormalizeMcpResult(mcpResult) ==
  IF ~IsSome(mcpResult.content)
  THEN [content |-> <<TextItem(NoContentText)>>, isError |-> TRUE]
  ELSE [content |-> [i \in 1..Len(Get(mcpResult.content)) |->
                       NormalizeItem(Get(mcpResult.content)[i])],
        isError |-> FALSE]

\* The tool functions and the backend tool each one calls.
ToolFunctions == {"viewFile", "editFile", "listDirectory", "writeFile", "runBash", "grepFiles"}
BackendToolOf(fn) ==
  CASE fn = "viewFile" -> "Read"
    [] fn = "editFile" -> "Edit"
    [] fn = "listDirectory" -> "LS"
    [] fn = "writeFile" -> "Write"
    [] fn = "runBash" -> "Bash"
    [] fn = "grepFiles" -> "Grep"
ErrorPrefixOf(fn) ==
  CASE fn = "viewFile" -> "Error reading file: "
    [] fn = "editFile" -> "Error editing file: "
    [] fn = "listDirectory" -> "Error listing directory: "
    [] fn = "writeFile" -> "Error writing file: "
    [] fn = "runBash" -> "Error running command: "
    [] fn = "grepFiles" -> "Error searching files: "

\* What happens inside a tool function: ensureClaudeClient fails
\* ("connect_fail"), client.callTool rejects ("call_throw"), or it resolves
\* with a backend result ("result").
BackendOutcome(kind, mcpResult) == [kind |-> kind, mcpResult |-> mcpResult]
NoMcpResult == [content |-> None, isError |-> FALSE]
OkMcpResult ==
  [content |-> Some(<<McpItem("text", Some(<<"ok">>), <<>>, <<>>, None)>>), isError |-> FALSE]

\* The value a tool function resolves with: it never rejects.
ToolFunctionResult(fn, outcome) ==
  IF outcome.kind = "connect_fail"
    THEN [content |-> <<TextItem(<<ErrorPrefixOf(fn), "connect failed">>)>>, isError |-> TRUE]
  ELSE IF outcome.kind = "call_throw"
    THEN [content |-> <<TextItem(<<ErrorPrefixOf(fn), "call failed">>)>>, isError |-> TRUE]
  ELSE NormalizeMcpResult(outcome.mcpResult)

NeedsConnectOnlyWhenAbsent(client) == client = "null"

\* ensureClaudeClient creates a client when none is held or the held one is closed.
NeedsConnect(client) == client \in {"null", "closed"}

(***************************************************************************)
(* Conversation store.                                                     *)
(***************************************************************************)
\* Default of getConversationContext's maxEntries.
ContextMaxEntries == 10

Entry(timestamp, input, filePaths, response) ==
  [timestamp |-> timestamp, input |-> input, filePaths |-> filePaths,
   response |-> response]

\* entries.slice(-maxEntries)
LastEntries(entries, maxEntries) ==
  IF maxEntries = 0 THEN entries
  ELSE IF Len(entries) <= maxEntries THEN entries
  ELSE SubSeq(entries, Len(entries) - maxEntries + 1, Len(entries))

RenderEntry(e) ==
  <<"### User Query (", ToString(e.timestamp), "):\n">> \o e.input \o <<"\n\n">>
  \o (IF IsSome(e.filePaths) /\ Len(Get(e.filePaths)) > 0
      THEN <<"**Files analyzed:** ">> \o Join(Get(e.filePaths), <<", ">>) \o <<"\n\n">>
      ELSE <<>>)
  \o <<"### AI Response:\n">> \o e.response \o <<"\n\n">> \o <<"---\n\n">>

RECURSIVE RenderEntries(_)
RenderEntries(es) ==
  IF Len(es) = 0 THEN <<>> ELSE RenderEntry(Head(es)) \o RenderEntries(Tail(es))

\* getConversationContext
GetConversationContext(conversation, maxEntries) ==
  LET recentEntries == LastEntries(conversation.entries, maxEntries)
  IN IF Len(recentEntries) = 0 THEN <<>>
     ELSE <<"## Previous Conversation Context\n\n">> \o RenderEntries(recentEntries)

\* The durable record of a conversation: JSON.stringify(conversation), the
\* values in the order of the keys id, createdAt, updatedAt, entries; an
\* entry without filePaths is written without that key.
EntryJson(e) ==
  <<e.timestamp, e.input, e.response>>
  \o (IF IsSome(e.filePaths) THEN <<Get(e.filePaths)>> ELSE <<>>)
ConversationJson(c) ==
  <<c.id, c.createdAt, c.updatedAt, [i \in 1..Len(c.entries) |-> EntryJson(c.entries[i])]>>
\* JSON.parse of a durable record.
ParseEntryJson(j) ==
  Entry(j[1], j[2], IF Len(j) = 4 THEN Some(j[4]) ELSE None, j[3])
ParseConversationJson(j) ==
  [id |-> j[1], createdAt |-> j[2], updatedAt |-> j[3],
   entries |-> [i \in 1..Len(j[4]) |-> ParseEntryJson(j[4][i])]]

\* A mutation of createOrUpdateConversation: the new entry is put first.
AppendedConversationNewestFirst(convs, id, input, response, filePaths, now) ==
  LET entry == [timestamp |-> now, input |-> input,
                filePaths |-> IF IsSome(filePaths) THEN filePaths ELSE None,
                response |-> response]
  IN IF id \notin DOMAIN convs
     THEN [id |-> id, createdAt |-> now, updatedAt |-> now, entries |-> <<entry>>]
     ELSE [convs[id] EXCEPT !.entries = <<entry>> \o @, !.updatedAt = now]

\* The in-memory effect of createOrUpdateConversation.
AppendedConversation(convs, id, input, response, filePaths, now) ==
  LET entry == Entry(now, input, IF IsSome(filePaths) THEN filePaths ELSE None, response)
  IN IF id \notin DOMAIN convs
     THEN [id |-> id, createdAt |-> now, updatedAt |-> now, entries |-> <<entry>>]
     ELSE [convs[id] EXCEPT !.entries = Append(@, entry), !.updatedAt = now]

\* A mutation of Map.delete: the key stays.
MapDeleteNothing(m, k) == m

\* Map.set / Map.delete on a function whose domain is the set of keys held.
MapSet(m, k, v) == [x \in DOMAIN m \cup {k} |-> IF x = k THEN v ELSE m[x]]
MapDelete(m, k) == [x \in DOMAIN m \ {k} |-> m[x]]

\* The segments of a conversation id between its "/" characters.
IdSegments(id) ==
  CASE id = "x/../c1" -> <<"x", "..", "c1">>
    [] id = "a/b" -> <<"a", "b">>
    [] OTHER -> <<id>>

\* path.join normalises what it joins: "." is dropped and ".." takes back
\* the segment before it.
RECURSIVE NormalizeSegments(_, _)
NormalizeSegments(segs, acc) ==
  IF Len(segs) = 0 THEN acc
  ELSE IF Head(segs) = "." THEN NormalizeSegments(Tail(segs), acc)
  ELSE IF Head(segs) = ".." /\ Len(acc) > 0 /\ acc[Len(acc)] # ".."
    THEN NormalizeSegments(Tail(segs), SubSeq(acc, 1, Len(acc) - 1))
  ELSE NormalizeSegments(Tail(segs), Append(acc, Head(segs)))

\* path.join(this.dataDir, id + '.json'), relative to dataDir; the last
\* segment stands for the file name with its .json suffix.
RecordPath(id) == NormalizeSegments(IdSegments(id), <<>>)

\* Only dataDir itself is created (mkdir of initializeDataDir): a path with
\* a directory below dataDir has no parent to be written in.
ParentExists(path) == Len(path) = 1

\* A mutation of writeFile: it cannot fail.
WriteFileIgnoresFault(d, path, data, fault) == MapSet(d, path, data)

\* fs.writeFile and fs.unlink on the durable records; `fault` is a failure
\* of the file system itself, which the callers log and do not raise.
WriteFile(d, path, data, fault) ==
  IF fault \/ ~ParentExists(path) THEN d ELSE MapSet(d, path, data)
Unlink(d, path, fault) ==
  IF fault THEN d ELSE MapDelete(d, path)

\* loadAllConversations: every record directly in dataDir is parsed and
\* set under the id it holds.
LoadAllConversations(d) ==
  LET files == { f \in DOMAIN d : Len(f) = 1 }
      ids == { ParseConversationJson(d[f]).id : f \in files }
  IN [id \in ids |->
        ParseConversationJson(d[CHOOSE f \in files : ParseConversationJson(d[f]).id = id])]

(***************************************************************************)
(* The reasoning engine's responses and the handler's requests.            *)
(***************************************************************************)
Yes == <<"y", "e", "s">>
No == <<"n", "o">>

\* The parsed arguments of a function call: every key is None when absent.
NoArgs ==
  [file_path |-> None, old_string |-> None, new_string |-> None, content |-> None,
   confirm |-> None, command |-> None, pattern |-> None, path |-> None]

\* functionCall.arguments is a JSON text: parse is "ok" (value is what
\* JSON.parse returns), "null" (the text `null`) or "error" (not JSON).
Arguments(parse, value) == [parse |-> parse, value |-> value]

FunctionCall(name, arguments, id) ==
  [type |-> "function_call", name |-> name, arguments |-> arguments, id |-> id,
   content |-> <<>>]
\* A message item whose content is output_text items with the given texts.
Message(texts) ==
  [type |-> "message", name |-> "", arguments |-> Arguments("ok", NoArgs), id |-> None,
   content |-> [i \in 1..Len(texts) |-> [type |-> "output_text", text |-> texts[i]]]]

FilePathF == <<"/f">>
ViewCall(id) ==
  FunctionCall("claude_view", Arguments("ok", [NoArgs EXCEPT !.file_path = Some(FilePathF)]), id)
WriteCall(confirm, id) ==
  FunctionCall("claude_write",
               Arguments("ok", [NoArgs EXCEPT !.file_path = Some(FilePathF),
                                              !.content = Some(<<"x">>),
                                              !.confirm = confirm]), id)
BashCall(confirm, id) ==
  FunctionCall("claude_bash",
               Arguments("ok", [NoArgs EXCEPT !.command = Some(<<"ls">>),
                                              !.confirm = confirm]), id)

\* The engine outputs explored: each is response.output of one engine call.
EngineOutputs ==
  { <<>>,
    <<Message(<< <<" ">>, <<>> >>), Message(<< <<"\n">> >>)>>,
    <<Message(<< <<"a">> >>)>>,
    <<Message(<< <<"b">> >>), ViewCall(Some("fc_1"))>>,
    <<BashCall(None, None), FunctionCall("nope", Arguments("ok", NoArgs), Some("fc_2"))>>,
    <<WriteCall(Some(Yes), Some("fc_3")), WriteCall(Some(No), Some("fc_4"))>>,
    <<FunctionCall("claude_grep", Arguments("error", NoArgs), Some("fc_5")),
      FunctionCall("claude_edit", Arguments("null", NoArgs), Some("fc_6")),
      BashCall(Some(Yes), Some("fc_7"))>> }

\* 'call_' + Date.now() + '_' + Math.random(): the identifiers it can give.
GeneratedCallIds == {"call_g1", "call_g2"}

IsFunctionCall(item) == item.type = "function_call"

\* A mutation of line 468: the identifier of the engine is ignored.
CallIdAlwaysGenerated(item) == TRUE

\* const callId = functionCall.id || generated
CallIdIsGenerated(item) == ~(IsSome(item.id) /\ Get(item.id) # "")

\* The tool function a function name is dispatched to, "" for the default case.
ToolFunctionOf(name) ==
  CASE name = "claude_view" -> "viewFile"
    [] name = "claude_edit" -> "editFile"
    [] name = "claude_ls" -> "listDirectory"
    [] name = "claude_write" -> "writeFile"
    [] name = "claude_bash" -> "runBash"
    [] name = "claude_grep" -> "grepFiles"
    [] OTHER -> ""

\* A mutation of the confirmation gate: the check is lost.
ConfirmGateOpen(confirm) == TRUE

\* args.confirm === 'yes' (and confirm !== "yes" of the direct tools, negated).
ConfirmGate(confirm) == confirm = Some(Yes)

\* The cases of the switch that read a property of args.
ReadsArgs(name) ==
  name \in {"claude_view", "claude_edit", "claude_write", "claude_bash", "claude_grep"}

\* TRUE when the try block of the dispatch throws: JSON.parse fails, or a
\* property of null is read.
DispatchThrows(item) ==
  \/ item.arguments.parse = "error"
  \/ (item.arguments.parse = "null" /\ ReadsArgs(item.name))

DispatchErrorMsg(item) ==
  IF item.arguments.parse = "error" THEN <<"Unexpected token in JSON">>
  ELSE <<"Cannot read properties of null">>

\* TRUE when the switch calls a tool function for the item.
DispatchCallsTool(item) ==
  /\ ~DispatchThrows(item)
  /\ ToolFunctionOf(item.name) # ""
  /\ (item.name \in {"claude_write", "claude_bash"} => ConfirmGate(item.arguments.value.confirm))

\* The result of the switch when no tool function is called.
LocalResult(name) ==
  IF name = "claude_write"
    THEN [content |-> <<TextItem(<<"Write operation cancelled. User confirmation required.">>)>>,
          isError |-> TRUE]
  ELSE IF name = "claude_bash"
    THEN [content |-> <<TextItem(<<"Command execution cancelled. User confirmation required.">>)>>,
          isError |-> TRUE]
  ELSE [content |-> <<TextItem(<<"Unknown function: ", name>>)>>, isError |-> TRUE]

\* result.content?.map(item => item.text).join('\n') || 'No result'
ResultText(result) ==
  LET joined == Join([i \in 1..Len(result.content) |-> result.content[i].text], <<"\n">>)
  IN IF Truthy(joined) THEN joined ELSE <<"No result">>

\* A mutation of lines 506-511 and 521-526: the output item loses its text.
FunctionCallOutputWithoutText(callId, output) ==
  [type |-> "function_call_output", role |-> "", call_id |-> callId, text |-> <<>>]

FunctionCallOutput(callId, output) ==
  [type |-> "function_call_output", role |-> "", call_id |-> callId, text |-> output]
InputMessage(role, text) ==
  [type |-> "message", role |-> role, call_id |-> "", text |-> text]

\* The candidate text of an iteration: the non-empty output_text texts of
\* its message items, joined by "\n".
RECURSIVE TextContents(_)
TextContents(output) ==
  IF Len(output) = 0 THEN <<>>
  ELSE (IF Head(output).type = "message"
        THEN SelectSeq([i \in 1..Len(Head(output).content) |-> Head(output).content[i].text],
                       Truthy)
        ELSE <<>>) \o TextContents(Tail(output))
CurrentResponseText(output) == Join(TextContents(output), <<"\n">>)

\* Mutations of the loop's decisions.
LoopGuardInclusive(d, m) == d <= m
IsCompleteWithoutText(hasCalls, text) == ~hasCalls
IsCompleteDespiteCalls(hasCalls, text) == Len(Trim(text)) > 0

\* while (depth < maxDepth).  The source fixes maxDepth at 30; the model lets
\* it be any cap of 1..MaxCap, chosen when the server starts.
LoopGuard(d, m) == d < m
\* !hasFunctionCalls && currentResponseText.trim().length > 0
IsComplete(hasCalls, text) == ~hasCalls /\ Len(Trim(text)) > 0
\* !hasFunctionCalls && !currentResponseText.trim(), then depth >= maxDepth - 1
IsBlankIteration(hasCalls, text) == ~hasCalls /\ Len(Trim(text)) = 0
FallbackDue(d, m) == d >= m - 1

\* The fixed text of line 565 ("tools ran, but no final answer was obtained").
FallbackMessage == <<"FALLBACK: tools ran but no final answer was obtained">>
ToolsUsedHeader == <<"\n\n---\n**Tools Used:**\n">>

\* A mutation of lines 579-582: only the last summary is appended.
WithToolsUsedLastOnly(text, toolResults) ==
  IF Len(toolResults) > 0 THEN text \o ToolsUsedHeader \o toolResults[Len(toolResults)]
  ELSE text

\* responseText after the loop: the tools-used section is appended when
\* allToolResults is not empty.
WithToolsUsed(text, toolResults) ==
  IF Len(toolResults) > 0 THEN text \o ToolsUsedHeader \o Join(toolResults, <<"\n\n">>)
  ELSE text

(***************************************************************************)
(* State.                                                                  *)
(***************************************************************************)
VARIABLES
  pc,                 \* where the one request of a behaviour stands
  request,            \* the arguments of the ask handler
  convId, conversationContext, diffAnalysis, fileContents,
  inputItems, depth, maxDepth, lastResponseId, allToolResults, responseText,
  response,           \* the engine response being processed: [id, output]
  idx,                \* the next item of response.output the for loop looks at
  toolOutputItems, hasFunctionCalls,
  result,             \* the result of the last dispatched call, None if it threw
  conversations,      \* ConversationStore.conversations
  disk,               \* the durable records, by path below dataDir
  clock,              \* what new Date() gives next
  claudeClient,       \* "null", "open" or "closed"
  backendCalls,       \* the client.callTool calls made so far
  gitRuns,            \* the argument vectors git was spawned with
  returned,           \* what the handler returned to the caller, None before
  toolCall,           \* the direct tool call handled: None or Some([fn, arguments])
  engineRequests,     \* the requests sent to the engine, in order
  history,            \* per finished iteration: its number of calls and its text
  exit,               \* why the handler left: "", "text", "fallback", "exhausted", ...
  pendingIo,          \* the writeFile and unlink calls of the store not yet settled
  hist,               \* what the operations on the store did so far
  backend             \* the backend connections, the supervision and the shutdown

loopVars ==
  <<inputItems, depth, lastResponseId, allToolResults, responseText, response, idx,
    toolOutputItems, hasFunctionCalls, result, engineRequests, history>>
setupVars ==
  <<request, convId, conversationContext, diffAnalysis, fileContents, toolCall>>
storeVars == <<conversations, disk, clock>>
backendVars == <<claudeClient, backendCalls>>
ioVars == <<pendingIo, hist, backend>>

vars ==
  <<pc, request, convId, conversationContext, diffAnalysis, fileContents, inputItems,
    depth, maxDepth, lastResponseId, allToolResults, responseText, response, idx,
    toolOutputItems, hasFunctionCalls, result, conversations, disk, clock,
    claudeClient, backendCalls, gitRuns, returned, toolCall, engineRequests, history,
    exit, pendingIo, hist, backend>>

\* defaultConversationId: generated once per server session.
DefaultConversationId == "default_1"

\* A mutation of the resolution: a call without an id gets an id of its own.
ResolveConvIdPerCall(conversation_id, now) ==
  IF IsSome(conversation_id) /\ Get(conversation_id) # "" THEN Get(conversation_id)
  ELSE ToString(now)

\* conversation_id || defaultConversationId (lines 211 and 645); `now` is
\* the time of the call, which the resolution does not look at.
ResolveConvId(conversation_id, now) ==
  IF IsSome(conversation_id) /\ Get(conversation_id) # "" THEN Get(conversation_id)
  ELSE DefaultConversationId

Request(input, file_paths, conversation_id, from, to, unstaged) ==
  [input |-> input, file_paths |-> file_paths, conversation_id |-> conversation_id,
   from |-> from, to |-> to, unstaged |-> unstaged]

NoRequest == Request(<<>>, None, None, None, None, None)

\* The file system readFile sees: /r holds three lines, any other path fails.
ReadablePath == <<"/r">>
UnreadablePath == <<"/u">>
ReadFileOutcome(filePath) ==
  IF filePath = ReadablePath THEN Some(<<"l1", "\n", "l2", "\n", "l3">>) ELSE None

HeadTilde1 == <<"H", "E", "A", "D", "~", "1">>
FeatureX == <<"f", "e", "a", "t", "u", "r", "e", "/", "x">>
V100 == <<"v", "1", ".", "0", ".", "0">>

\* The requests explored by Spec.
Requests ==
  { Request(<<"q">>, None, None, None, None, None),
    Request(<<"q">>, Some(<<ReadablePath, UnreadablePath>>), Some("c1"), Some(HeadTilde1),
            None, None),
    Request(<<"q">>, None, Some(""), Some(<<"-", "x">>), None, None),
    Request(<<"q">>, None, None, Some(V100), Some(<<"a", ";", "b">>), Some(FALSE)) }

\* What git can give back in Spec.
OneFileDiff ==
  << <<"d","i","f","f"," ","-","-","g","i","t"," ","a","/","f"," ","b","/","f">>,
     <<"-","-","-"," ","a","/","f">>, <<"+","+","+"," ","b","/","f">>,
     <<"-","o","l","d">>, <<"+","n","e","w">>, <<>> >>
GitOutput(threw, lines, more, stderr) ==
  [threw |-> threw, lines |-> lines, more |-> more, stderr |-> stderr]
GitOutputs ==
  { GitOutput(FALSE, OneFileDiff, 0, <<>>),
    GitOutput(FALSE, OneFileDiff, 0, <<"warning", ": LF will be replaced">>),
    GitOutput(FALSE, OneFileDiff, DiffLineLimit - Len(OneFileDiff) + 1, <<>>),
    GitOutput(FALSE, << <<>> >>, 0, <<"fatal: bad revision">>),
    GitOutput(TRUE, << <<>> >>, 0, <<>>) }

\* The diff section of the engine input (lines 222-240).
DiffAnalysisText(diffResult) ==
  <<"\n## Git Diff Analysis\n\n**Command executed:** ">> \o diffResult.command
  \o <<"\n**Summary:** ">> \o diffResult.summary
  \o <<"\n\n### Code Changes:\n[diff]\n">> \o Join(diffResult.content, <<"\n">>)
  \o (IF diffResult.more > 0 THEN <<"\n", ToString(diffResult.more), " context lines">>
      ELSE <<>>)
  \o <<"\n[/]\n\n**Analysis Instructions:**...">>

\* A mutation of the catch of lines 266-270: an unreadable file is skipped.
FileSectionSkipsUnreadable(filePath) ==
  IF IsSome(ReadFileOutcome(filePath))
  THEN <<"\n## File: ">> \o filePath \o <<"\n[/]\n">> \o Get(ReadFileOutcome(filePath))
       \o <<"\n[/]\n\n">>
  ELSE <<>>

\* One section of fileContents (lines 255-271).
FileSection(filePath) ==
  IF IsSome(ReadFileOutcome(filePath))
  THEN <<"\n## File: ">> \o filePath \o <<"\n[/]\n">> \o Get(ReadFileOutcome(filePath))
       \o <<"\n[/]\n\n">>
  ELSE <<"\n## File: ">> \o filePath \o <<"\nError reading file: ", "ENOENT", "\n\n">>

RECURSIVE FileSections(_)
FileSections(paths) ==
  IF Len(paths) = 0 THEN <<>> ELSE FileSection(Head(paths)) \o FileSections(Tail(paths))

\* fileContents after the loop over file_paths.
FileContentsOf(file_paths) ==
  IF IsSome(file_paths) /\ Len(Get(file_paths)) > 0 THEN FileSections(Get(file_paths))
  ELSE <<>>

\* A mutation of lines 286-304: the files item is pushed before the diff item.
InitialInputItemsFilesFirst(context, input, diff, files) ==
  <<InputMessage("user", context \o input)>>
  \o (IF Truthy(files) THEN <<InputMessage("system", <<"## Files:\n">> \o files)>> ELSE <<>>)
  \o (IF Truthy(diff) THEN <<InputMessage("system", diff)>> ELSE <<>>)

\* inputItems as first assembled (lines 278-304).
InitialInputItems(context, input, diff, files) ==
  <<InputMessage("user", context \o input)>>
  \o (IF Truthy(diff) THEN <<InputMessage("system", diff)>> ELSE <<>>)
  \o (IF Truthy(files) THEN <<InputMessage("system", <<"## Files:\n">> \o files)>> ELSE <<>>)

\* The conversation a previous session left behind, in memory and on disk.
StoredConversation ==
  [id |-> "c1", createdAt |-> 1, updatedAt |-> 1,
   entries |-> <<Entry(1, <<"q0">>, None, <<"r0">>)>>]

NoResponse == [id |-> "", output |-> <<>>]

\* Nothing has been done on the store yet.
NoHistory ==
  [ops |-> 0,               \* operations started
   resets |-> 0,            \* resets among them
   overlapped |-> FALSE,    \* one started while a file operation was pending
   faulted |-> FALSE,       \* the file system failed a write or an unlink
   touched |-> {},          \* the ids the operations resolved to
   lastOn |-> {},           \* per id, the number of the last operation on it
   defaultEntries |-> <<>>, \* entries of calls without id since such a reset
   absentResets |-> {},     \* unlinks of resets of an id that did not exist
   resetDone |-> {},        \* settled resets with no later operation on the id
   afterReset |-> {}]       \* ids appended to right after a settled reset

\* No backend connection was made yet and main has started the supervision.  live: the connections (child
\* processes) that exist; ref: the one claudeClient refers to, 0 for null;
\* attempts: the calls of createClaudeClient that await the handshake;
\* made: the connections created so far; timer: supervisionInterval is set;
\* stage: "running", "closing" (shutdown awaits client.close()) or "exited";
\* closing: the connection closeClaudeClient closes; raced: ensureClaudeClient
\* started an attempt while another was in flight; duringShutdown: an
\* attempt was in flight when the signal came or was started after it.
NoBackend ==
  [live |-> {}, ref |-> 0, attempts |-> {}, made |-> 0, timer |-> TRUE,
   stage |-> "running", closing |-> 0, raced |-> FALSE, duringShutdown |-> FALSE]

\* The state of a server that has handled nothing yet, but for pc, request,
\* maxDepth, the backend client, the store and its file operations.
FreshRequest ==
  /\ backend = NoBackend
  /\ convId = ""
  /\ conversationContext = <<>>
  /\ diffAnalysis = <<>>
  /\ fileContents = <<>>
  /\ inputItems = <<>>
  /\ depth = 0
  /\ lastResponseId = None
  /\ allToolResults = <<>>
  /\ responseText = <<>>
  /\ response = NoResponse
  /\ idx = 1
  /\ toolOutputItems = <<>>
  /\ hasFunctionCalls = FALSE
  /\ result = None
  /\ clock = 2
  /\ backendCalls = {}
  /\ gitRuns = <<>>
  /\ returned = None
  /\ toolCall = None
  /\ engineRequests = <<>>
  /\ history = <<>>
  /\ exit = ""
  /\ hist = NoHistory

\* The store after loadAllConversations has read the record a session
\* before left behind.
FreshHandler ==
  /\ FreshRequest
  /\ pendingIo = {}
  /\ conversations = [c \in {"c1"} |-> StoredConversation]
  /\ disk = [f \in {RecordPath("c1")} |-> ConversationJson(StoredConversation)]

\* let claudeClient: ClaudeClientWrapper | null = null
Fresh ==
  /\ FreshHandler
  /\ claudeClient = "null"

Init ==
  /\ pc = "idle"
  /\ request = NoRequest
  /\ maxDepth \in 1..MaxCap
  /\ Fresh

(***************************************************************************)
(* The ask-gpt-o3-extremely-smart handler.                                 *)
(***************************************************************************)
Returned(content, isError) == [content |-> content, isError |-> isError]
ErrorResponse(msg) == Returned(<< <<"Error: ">> \o msg >>, "absent")

\* Lines 208-215: the handler starts, resolves the conversation id and
\* renders the context of the conversation it finds.
AskStart(req) ==
  /\ pc = "idle"
  /\ request' = req
  /\ LET id == ResolveConvId(req.conversation_id, clock)
     IN /\ convId' = id
        /\ conversationContext' =
             IF id \in DOMAIN conversations
             THEN GetConversationContext(conversations[id], ContextMaxEntries)
             ELSE <<>>
  /\ pc' = IF TruthyOpt(req.from) THEN "diff" ELSE "files"
  /\ UNCHANGED <<diffAnalysis, fileContents, toolCall, loopVars, maxDepth, storeVars,
                 backendVars, gitRuns, returned, exit>>

\* A mutation of the catch of lines 241-249: the diff error is dropped and
\* the handler goes on without a diff.
DiffErrorSwallowed(msg) ==
  /\ pc' = "files"
  /\ returned' = returned
  /\ exit' = "diff_error"

\* Lines 241-249: executeDiff threw; the error text is returned at once.
DiffErrorReturn(msg) ==
  /\ pc' = "done"
  /\ returned' = Some(ErrorResponse(msg))
  /\ exit' = "diff_error"

\* executeDiff rejects a reference: nothing is spawned.
DiffRejected ==
  /\ pc = "diff"
  /\ DiffRefsRejected(Get(request.from), request.to)
  /\ DiffErrorReturn(DiffErrorMessage(Get(request.from), request.to,
                                      GitOutput(FALSE, <<>>, 0, <<>>)))
  /\ UNCHANGED <<setupVars, loopVars, maxDepth, storeVars, backendVars, gitRuns>>

\* executeDiff spawns git and either throws on what it gave back or returns
\* the diff, which becomes diffAnalysis.
DiffRun(out) ==
  /\ pc = "diff"
  /\ ~DiffRefsRejected(Get(request.from), request.to)
  /\ LET args == DiffArgs(Get(request.from), request.to, request.unstaged)
     IN /\ gitRuns' = Append(gitRuns, args)
        /\ IF DiffRunFails(out)
           THEN /\ DiffErrorReturn(DiffErrorMessage(Get(request.from), request.to, out))
                /\ UNCHANGED diffAnalysis
           ELSE /\ diffAnalysis' = DiffAnalysisText(DiffResult(args, out))
                /\ pc' = "files"
                /\ UNCHANGED <<returned, exit>>
  /\ UNCHANGED <<request, convId, conversationContext, fileContents, toolCall, loopVars,
                 maxDepth, storeVars, backendVars>>

\* Lines 252-304: the files are read and the input items assembled.
ReadFiles ==
  /\ pc = "files"
  /\ fileContents' = FileContentsOf(request.file_paths)
  /\ inputItems' = InitialInputItems(conversationContext, request.input, diffAnalysis,
                                     fileContents')
  /\ pc' = "engine"
  /\ UNCHANGED <<request, convId, conversationContext, diffAnalysis, toolCall, depth,
                 maxDepth, lastResponseId, allToolResults, responseText, response, idx,
                 toolOutputItems, hasFunctionCalls, result, engineRequests, history,
                 storeVars, backendVars, gitRuns, returned, exit>>

\* A mutation of line 455: no request refers to a previous response.
EngineRequestWithoutPrevious(input, previous) ==
  [input |-> input, previous_response_id |-> None]

EngineRequest(input, previous) == [input |-> input, previous_response_id |-> previous]

\* Lines 443-460: one more iteration; the engine answers with `output`.
EngineCall(output) ==
  /\ pc = "engine"
  /\ LoopGuard(depth, maxDepth)
  /\ depth' = depth + 1
  /\ engineRequests' = Append(engineRequests, EngineRequest(inputItems, lastResponseId))
  /\ response' = [id |-> ToString(depth + 1), output |-> output]
  /\ hasFunctionCalls' = FALSE
  /\ toolOutputItems' = <<>>
  /\ idx' = 1
  /\ pc' = "dispatch"
  /\ UNCHANGED <<setupVars, inputItems, maxDepth, lastResponseId, allToolResults,
                 responseText, result, history, storeVars, backendVars, gitRuns,
                 returned, exit>>

\* A mutation of the catch of lines 604-618: the exchange is saved although
\* the engine call failed.
EngineErrorSaved ==
  /\ conversations' =
       MapSet(conversations, convId,
              AppendedConversation(conversations, convId, request.input,
                                   <<"Error">>, request.file_paths, clock))
  /\ disk' = MapSet(disk, RecordPath(convId), ConversationJson(conversations'[convId]))
  /\ clock' = clock + 1

\* Lines 604-618: the catch of the handler touches no store.
EngineErrorCatch == UNCHANGED storeVars

\* openai.responses.create rejects: the catch returns the error text.
EngineRaise ==
  /\ pc = "engine"
  /\ LoopGuard(depth, maxDepth)
  /\ depth' = depth + 1
  /\ engineRequests' = Append(engineRequests, EngineRequest(inputItems, lastResponseId))
  /\ EngineErrorCatch
  /\ returned' = Some(ErrorResponse(<<"engine call failed">>))
  /\ exit' = "engine_error"
  /\ pc' = "done"
  /\ UNCHANGED <<setupVars, inputItems, maxDepth, lastResponseId, allToolResults,
                 responseText, response, idx, toolOutputItems, hasFunctionCalls, result,
                 history, backendVars, gitRuns>>

\* A mutation of the for loop of line 462: it stops after the first call.
NextCallIdxFirstOnly(output, i) ==
  IF i = 1 /\ \E k \in 1..Len(output) : output[k].type = "function_call"
  THEN CHOOSE k \in 1..Len(output) :
         /\ output[k].type = "function_call"
         /\ \A j \in 1..(k - 1) : output[j].type # "function_call"
  ELSE 0

\* The index of the next function_call item of the output at or after i, 0 if none.
NextCallIdx(output, i) ==
  IF \E k \in i..Len(output) : IsFunctionCall(output[k])
  THEN CHOOSE k \in i..Len(output) :
         /\ IsFunctionCall(output[k])
         /\ \A j \in i..(k - 1) : ~IsFunctionCall(output[j])
  ELSE 0

BackendCall(name, via, confirm, arguments) ==
  [name |-> name, via |-> via, confirm |-> confirm, arguments |-> arguments]

\* The arguments object a tool function passes to client.callTool.
BackendArguments(fn, a) ==
  CASE fn = "viewFile" -> [NoArgs EXCEPT !.file_path = a.file_path]
    [] fn = "editFile" -> [NoArgs EXCEPT !.file_path = a.file_path,
                                         !.old_string = a.old_string,
                                         !.new_string = a.new_string]
    [] fn = "listDirectory" -> [NoArgs EXCEPT !.path = a.path]
    [] fn = "writeFile" -> [NoArgs EXCEPT !.file_path = a.file_path, !.content = a.content]
    [] fn = "runBash" -> [NoArgs EXCEPT !.command = a.command]
    [] fn = "grepFiles" -> [NoArgs EXCEPT !.pattern = a.pattern]

\* The outcomes of a tool function explored by Spec.
BackendOutcomes ==
  { BackendOutcome("connect_fail", NoMcpResult),
    BackendOutcome("call_throw", NoMcpResult),
    BackendOutcome("result", OkMcpResult) }

\* The effect of a tool function on the client and the backend: the client is
\* (re)established when needed, and callTool is made unless that failed; on
\* a client whose transport is closed callTool can only reject.
RunToolFunction(fn, via, confirm, a, outcome) ==
  /\ outcome.kind = "connect_fail" => NeedsConnect(claudeClient)
  /\ claudeClient' = IF NeedsConnect(claudeClient) /\ outcome.kind # "connect_fail"
                      THEN "open" ELSE claudeClient
  /\ claudeClient' = "closed" /\ outcome.kind # "connect_fail"
       => outcome.kind = "call_throw"
  /\ backendCalls' =
       IF outcome.kind = "connect_fail" THEN backendCalls
       ELSE backendCalls \cup {BackendCall(BackendToolOf(fn), via, confirm,
                                           BackendArguments(fn, a))}

\* The arguments the loop's switch passes on: claude_ls always lists '.'.
LoopToolArgs(item) ==
  IF item.name = "claude_ls" THEN [NoArgs EXCEPT !.path = Some(<<".">>)]
  ELSE [item.arguments.value EXCEPT !.path = None]

\* Lines 462-530: the next function_call item of the response is dispatched
\* and its output recorded.
DispatchCall(outcome, generated) ==
  /\ pc = "dispatch"
  /\ NextCallIdx(response.output, idx) # 0
  /\ LET k == NextCallIdx(response.output, idx)
         item == response.output[k]
         callId == IF CallIdIsGenerated(item) THEN generated ELSE Get(item.id)
         fn == ToolFunctionOf(item.name)
     IN /\ (generated # "call_g1") => CallIdIsGenerated(item)
        /\ hasFunctionCalls' = TRUE
        /\ idx' = k + 1
        /\ IF DispatchThrows(item)
           THEN /\ outcome.kind = "result"
                /\ result' = None
                /\ toolOutputItems' =
                     Append(toolOutputItems,
                            FunctionCallOutput(callId, <<"Error: ">> \o DispatchErrorMsg(item)))
                /\ allToolResults' =
                     Append(allToolResults,
                            <<"**", item.name, "** error: ">> \o DispatchErrorMsg(item))
                /\ UNCHANGED backendVars
           ELSE /\ IF DispatchCallsTool(item)
                   THEN /\ RunToolFunction(fn, "loop", item.arguments.value.confirm,
                                           LoopToolArgs(item), outcome)
                        /\ result' = Some(ToolFunctionResult(fn, outcome))
                   ELSE /\ outcome.kind = "result"
                        /\ result' = Some(LocalResult(item.name))
                        /\ UNCHANGED backendVars
                /\ toolOutputItems' =
                     Append(toolOutputItems,
                            FunctionCallOutput(callId, ResultText(Get(result'))))
                /\ allToolResults' =
                     Append(allToolResults,
                            <<"**", item.name, "** result:\n">> \o ResultText(Get(result')))
  /\ UNCHANGED <<setupVars, inputItems, depth, maxDepth, lastResponseId, responseText,
                 response, engineRequests, history, storeVars, gitRuns, returned, pc, exit>>

\* A mutation of lines 579-590: the entry holds the text without the
\* tools-used section.
LeaveLoopSavesBareText(text, why) ==
  /\ responseText' = WithToolsUsed(text, allToolResults)
  /\ conversations' =
       MapSet(conversations, convId,
              AppendedConversation(conversations, convId, request.input,
                                   text, request.file_paths, clock))
  /\ clock' = clock + 1
  /\ exit' = why
  /\ pc' = "saving"
  /\ UNCHANGED <<inputItems, lastResponseId, disk>>

\* Lines 579-590: the loop is left with `text`; the tools-used section is
\* added and createOrUpdateConversation puts the entry in memory.
LeaveLoop(text, why) ==
  /\ responseText' = WithToolsUsed(text, allToolResults)
  /\ conversations' =
       MapSet(conversations, convId,
              AppendedConversation(conversations, convId, request.input,
                                   responseText', request.file_paths, clock))
  /\ clock' = clock + 1
  /\ exit' = why
  /\ pc' = "saving"
  /\ UNCHANGED <<inputItems, lastResponseId, disk>>

IterationRecord(calls, text) == [calls |-> calls, text |-> text]

\* Lines 532-558: no call and a non-blank text: the text is the answer.
IterationCompletes ==
  /\ pc = "dispatch"
  /\ NextCallIdx(response.output, idx) = 0
  /\ LET text == CurrentResponseText(response.output)
     IN /\ IsComplete(hasFunctionCalls, text)
        /\ history' = Append(history, IterationRecord(Len(toolOutputItems), text))
        /\ LeaveLoop(text, "text")
  /\ UNCHANGED <<setupVars, depth, maxDepth, allToolResults, response, idx,
                 toolOutputItems, hasFunctionCalls, result, engineRequests, backendVars,
                 gitRuns, returned>>

\* Lines 560-568: no call and no text, and the fallback is due.
IterationFallback ==
  /\ pc = "dispatch"
  /\ NextCallIdx(response.output, idx) = 0
  /\ LET text == CurrentResponseText(response.output)
     IN /\ ~IsComplete(hasFunctionCalls, text)
        /\ IsBlankIteration(hasFunctionCalls, text)
        /\ FallbackDue(depth, maxDepth)
        /\ history' = Append(history, IterationRecord(Len(toolOutputItems), text))
        /\ LeaveLoop(FallbackMessage, "fallback")
  /\ UNCHANGED <<setupVars, depth, maxDepth, allToolResults, response, idx,
                 toolOutputItems, hasFunctionCalls, result, engineRequests, backendVars,
                 gitRuns, returned>>

\* TRUE when the iteration ends at line 577 without a break.
NoBreak(hasCalls, text, d, m) ==
  /\ ~IsComplete(hasCalls, text)
  /\ ~(IsBlankIteration(hasCalls, text) /\ FallbackDue(d, m))

\* Lines 570-577: the response id is kept, the tool outputs join the input
\* items and the loop goes round.
IterationContinues ==
  /\ pc = "dispatch"
  /\ NextCallIdx(response.output, idx) = 0
  /\ LET text == CurrentResponseText(response.output)
     IN /\ NoBreak(hasFunctionCalls, text, depth, maxDepth)
        /\ history' = Append(history, IterationRecord(Len(toolOutputItems), text))
  /\ LoopGuard(depth, maxDepth)
  /\ lastResponseId' = Some(response.id)
  /\ inputItems' = inputItems \o toolOutputItems
  /\ pc' = "engine"
  /\ UNCHANGED <<setupVars, depth, maxDepth, allToolResults, responseText, response, idx,
                 toolOutputItems, hasFunctionCalls, result, engineRequests, storeVars,
                 backendVars, gitRuns, returned, exit>>

\* Lines 570-590: as IterationContinues, but the cap is reached: the while
\* loop ends with responseText as it is.
IterationExhausts ==
  /\ pc = "dispatch"
  /\ NextCallIdx(response.output, idx) = 0
  /\ LET text == CurrentResponseText(response.output)
     IN /\ NoBreak(hasFunctionCalls, text, depth, maxDepth)
        /\ history' = Append(history, IterationRecord(Len(toolOutputItems), text))
  /\ ~LoopGuard(depth, maxDepth)
  /\ lastResponseId' = Some(response.id)
  /\ inputItems' = inputItems \o toolOutputItems
  /\ responseText' = WithToolsUsed(responseText, allToolResults)
  /\ conversations' =
       MapSet(conversations, convId,
              AppendedConversation(conversations, convId, request.input,
                                   responseText', request.file_paths, clock))
  /\ clock' = clock + 1
  /\ exit' = "exhausted"
  /\ pc' = "saving"
  /\ UNCHANGED <<setupVars, depth, maxDepth, allToolResults, response, idx,
                 toolOutputItems, hasFunctionCalls, result, engineRequests, disk,
                 backendVars, gitRuns, returned>>

ConversationIdText(id) == <<"\n\n---\nConversation ID: ", id>>

\* saveConversation (its failure is logged, not raised) and lines 592-603.
Persist(written) ==
  /\ pc = "saving"
  /\ disk' = WriteFile(disk, RecordPath(convId), ConversationJson(conversations[convId]),
                        ~written)
  /\ returned' = Some(Returned(<<responseText, ConversationIdText(convId)>>, "absent"))
  /\ pc' = "done"
  /\ UNCHANGED <<setupVars, loopVars, maxDepth, conversations, clock, backendVars,
                 gitRuns, exit>>

(***************************************************************************)
(* The other tools of the server.                                          *)
(***************************************************************************)
\* What a tool handler returns for a tool function's result.
ToolReturned(r) ==
  Returned([i \in 1..Len(r.content) |-> r.content[i].text],
           IF r.isError THEN "true" ELSE "false")

\* A direct tool that calls its tool function at once: claude-view,
\* claude-edit, claude-ls and claude-grep.
DirectTool(fn, a, outcome) ==
  /\ pc = "idle"
  /\ RunToolFunction(fn, "direct", None, a, outcome)
  /\ returned' = Some(ToolReturned(ToolFunctionResult(fn, outcome)))
  /\ toolCall' = Some([fn |-> fn, arguments |-> a])
  /\ exit' = "tool"
  /\ pc' = "done"
  /\ UNCHANGED <<request, convId, conversationContext, diffAnalysis, fileContents,
                 loopVars, maxDepth, storeVars, gitRuns>>

\* A direct tool behind the confirmation gate: claude-write and claude-bash.
GatedTool(fn, a, outcome) ==
  /\ pc = "idle"
  /\ IF ConfirmGate(a.confirm)
     THEN /\ RunToolFunction(fn, "direct", a.confirm, a, outcome)
          /\ returned' = Some(ToolReturned(ToolFunctionResult(fn, outcome)))
     ELSE /\ outcome.kind = "result"
          /\ returned' = Some(ToolReturned(LocalResult(
                            IF fn = "writeFile" THEN "claude_write" ELSE "claude_bash")))
          /\ UNCHANGED backendVars
  /\ toolCall' = Some([fn |-> fn, arguments |-> a])
  /\ exit' = "tool"
  /\ pc' = "done"
  /\ UNCHANGED <<request, convId, conversationContext, diffAnalysis, fileContents,
                 loopVars, maxDepth, storeVars, gitRuns>>

ConfirmValues == {None, Some(Yes), Some(No), Some(<<"Y", "E", "S">>), Some(<<>>)}

ClaudeView(outcome) ==
  DirectTool("viewFile", [NoArgs EXCEPT !.file_path = Some(FilePathF)], outcome)
ClaudeEdit(outcome) ==
  DirectTool("editFile", [NoArgs EXCEPT !.file_path = Some(FilePathF),
                                        !.old_string = Some(<<"x">>),
                                        !.new_string = Some(<<"y">>)], outcome)
ClaudeLs(outcome) ==
  DirectTool("listDirectory", [NoArgs EXCEPT !.path = Some(<<".">>)], outcome)
ClaudeGrep(outcome) ==
  DirectTool("grepFiles", [NoArgs EXCEPT !.pattern = Some(<<"x">>)], outcome)
ClaudeWrite(confirm, outcome) ==
  GatedTool("writeFile", [NoArgs EXCEPT !.file_path = Some(FilePathF),
                                        !.content = Some(<<"x">>),
                                        !.confirm = confirm], outcome)
ClaudeBash(confirm, outcome) ==
  GatedTool("runBash", [NoArgs EXCEPT !.command = Some(<<"ls">>),
                                      !.confirm = confirm], outcome)

\* reset-conversation: the conversation leaves the memory, then its record
\* is unlinked; a failure to unlink is logged, not raised.
ResetConversation(conversation_id, unlinked) ==
  /\ pc = "idle"
  /\ LET id == ResolveConvId(conversation_id, clock)
     IN /\ convId' = id
        /\ conversations' = MapDelete(conversations, id)
        /\ disk' = Unlink(disk, RecordPath(id), ~unlinked)
        /\ returned' = Some(Returned(<< <<"Conversation \"", id,
                                          "\" has been reset successfully.">> >>, "absent"))
  /\ exit' = "reset"
  /\ pc' = "done"
  /\ UNCHANGED <<request, conversationContext, diffAnalysis, fileContents, toolCall,
                 loopVars, maxDepth, clock, backendVars, gitRuns>>

Next ==
  \/ \E req \in Requests : AskStart(req) /\ UNCHANGED ioVars
  \/ DiffRejected /\ UNCHANGED ioVars
  \/ \E out \in GitOutputs : DiffRun(out) /\ UNCHANGED ioVars
  \/ ReadFiles /\ UNCHANGED ioVars
  \/ \E output \in EngineOutputs : EngineCall(output) /\ UNCHANGED ioVars
  \/ EngineRaise /\ UNCHANGED ioVars
  \/ \E outcome \in BackendOutcomes, generated \in GeneratedCallIds :
       DispatchCall(outcome, generated) /\ UNCHANGED ioVars
  \/ IterationCompletes /\ UNCHANGED ioVars
  \/ IterationFallback /\ UNCHANGED ioVars
  \/ IterationContinues /\ UNCHANGED ioVars
  \/ IterationExhausts /\ UNCHANGED ioVars
  \/ \E written \in BOOLEAN : Persist(written) /\ UNCHANGED ioVars
  \/ \E outcome \in BackendOutcomes : ClaudeView(outcome) /\ UNCHANGED ioVars
  \/ \E outcome \in BackendOutcomes : ClaudeEdit(outcome) /\ UNCHANGED ioVars
  \/ \E outcome \in BackendOutcomes : ClaudeLs(outcome) /\ UNCHANGED ioVars
  \/ \E outcome \in BackendOutcomes : ClaudeGrep(outcome) /\ UNCHANGED ioVars
  \/ \E confirm \in ConfirmValues, outcome \in BackendOutcomes : ClaudeWrite(confirm, outcome) /\ UNCHANGED ioVars
  \/ \E confirm \in ConfirmValues, outcome \in BackendOutcomes : ClaudeBash(confirm, outcome) /\ UNCHANGED ioVars
  \/ \E conversation_id \in {None, Some("c1"), Some("c2")}, unlinked \in BOOLEAN :
       ResetConversation(conversation_id, unlinked) /\ UNCHANGED ioVars

Spec == Init /\ [][Next]_vars

\* The handler with every step it is able to take eventually taken: the
\* engine, the backend, git and the file system answer every call.
FairSpec == Spec /\ WF_vars(Next)

(***************************************************************************)
(* executeDiff on its own, over every bounded reference.                   *)
(***************************************************************************)
RefAlphabet == {"a", "-", "~", ";", "\n"}
BoundedRefs == UNION { [1..k -> RefAlphabet] : k \in 0..MaxRefLen }
RefInputs == BoundedRefs \cup {HeadTilde1, FeatureX, V100}

\* What git can give back in SpecDiff: also the diffs around the limit,
\* of one line less than the limit, of as many lines and of one line more.
\* The last piece of stdout.split('\n') is what follows the last newline.
DiffOutputs ==
  GitOutputs \cup
  { GitOutput(FALSE, OneFileDiff, DiffLineLimit - Len(OneFileDiff) + k, <<>>) : k \in 0..2 }

DiffRequests ==
  { Request(<<"q">>, None, None, Some(f), t, u) :
      f \in RefInputs,
      t \in {None} \cup { Some(r) : r \in RefInputs },
      u \in {None, Some(TRUE), Some(FALSE)} }

InitDiff ==
  /\ pc = "diff"
  /\ request \in DiffRequests
  /\ maxDepth = MaxCap
  /\ Fresh

NextDiff ==
  \/ DiffRejected /\ UNCHANGED ioVars
  \/ \E out \in DiffOutputs : DiffRun(out) /\ UNCHANGED ioVars

SpecDiff == InitDiff /\ [][NextDiff]_vars

(***************************************************************************)
(* The summary of executeDiff, over diffs given by their structure: a diff  *)
(* is its files, each a name and content lines [kind, text] with kind      *)
(* "add", "del" or "ctx", and git writes it as lines.                      *)
(***************************************************************************)
DiffContentLine(kind, text) == [kind |-> kind, text |-> text]
DiffFile(name, body) == [name |-> name, body |-> body]

\* The line git writes for a content line: its sign, then the text.
GitContentLine(l) ==
  (CASE l.kind = "add" -> <<"+">> [] l.kind = "del" -> <<"-">> [] OTHER -> <<" ">>) \o l.text

\* The lines git writes for one file: the diff --git line, the --- and +++
\* file headers, the hunk header and the content lines.
GitFileLines(f) ==
  << DiffGitPrefix \o <<" ", "a", "/">> \o f.name \o <<" ", "b", "/">> \o f.name,
     <<"-", "-", "-", " ", "a", "/">> \o f.name,
     <<"+", "+", "+", " ", "b", "/">> \o f.name,
     <<"@", "@">> >>
  \o [i \in 1..Len(f.body) |-> GitContentLine(f.body[i])]

RECURSIVE GitDiffLines(_)
GitDiffLines(files) ==
  IF Len(files) = 0 THEN <<>> ELSE GitFileLines(Head(files)) \o GitDiffLines(Tail(files))

\* What execFile resolves with for a diff: stdout ends with a newline, so
\* its last piece is empty.
GitOutputOf(files) == GitOutput(FALSE, GitDiffLines(files) \o << <<>> >>, 0, <<>>)

\* Content lines as code has them: a plain line, an increment, a comment
\* of SQL or Lua.
ContentLines ==
  { DiffContentLine("add", <<"n">>), DiffContentLine("add", <<"+", "+", "i">>),
    DiffContentLine("del", <<"o">>), DiffContentLine("del", <<"-", "-", " ", "c">>),
    DiffContentLine("ctx", <<"x">>) }
DiffBodies == UNION { [1..k -> ContentLines] : k \in 0..MaxDiffLines }
SummaryDiffs ==
  { <<DiffFile(<<"f">>, body)>> : body \in DiffBodies } \cup
  { <<DiffFile(<<"f">>, <<DiffContentLine("add", <<"n">>)>>),
      DiffFile(<<"d", "/", "g">>, body)>> : body \in { b \in DiffBodies : Len(b) <= 1 } }

InitSummary ==
  /\ pc = "diff"
  /\ request \in { Request(<<"q">>, None, None, Some(HeadTilde1), None, u) :
                     u \in {None, Some(TRUE), Some(FALSE)} }
  /\ maxDepth = MaxCap
  /\ Fresh

NextSummary ==
  \E files \in SummaryDiffs : DiffRun(GitOutputOf(files)) /\ UNCHANGED ioVars

SpecSummary == InitSummary /\ [][NextSummary]_vars

(***************************************************************************)
(* The store over a server session: requests on several conversation ids,  *)
(* resets, and the file operations they start, which settle in any order.  *)
(* A request is taken from its start to createOrUpdateConversation in one   *)
(* step: the loop between the two does not touch the store.                *)
(***************************************************************************)
StoreIds == {None, Some(""), Some("c1"), Some("x/../c1"), Some("a/b")}
StoreFilePaths == {None, Some(<<ReadablePath>>)}

IoOp(n, op, id, path, data) == [n |-> n, op |-> op, id |-> id, path |-> path, data |-> data]

\* No conversation of this id is in memory or in a durable record, and no
\* file operation for it is pending.
Absent(id) ==
  /\ id \notin DOMAIN conversations
  /\ id \notin DOMAIN LoadAllConversations(disk)
  /\ ~(\E o \in pendingIo : o.id = id)

\* The caller gave no conversation id the handlers take as one.
Omitted(conversation_id) == ~IsSome(conversation_id) \/ Get(conversation_id) = ""

\* Lines 210-215 and 584-590 with createOrUpdateConversation up to its
\* await: the context is read, the entry is in memory and writeFile has
\* been called with the conversation as it is now.
AskAppend(conversation_id, file_paths) ==
  /\ pc = "store"
  /\ hist.ops < MaxOps
  /\ LET id == ResolveConvId(conversation_id, clock)
         conv == AppendedConversation(conversations, id, <<"q">>, <<"r">>, file_paths, clock)
     IN /\ convId' = id
        /\ conversationContext' =
             IF id \in DOMAIN conversations
             THEN GetConversationContext(conversations[id], ContextMaxEntries)
             ELSE <<>>
        /\ conversations' = MapSet(conversations, id, conv)
        /\ pendingIo' = pendingIo \cup
             {IoOp(clock, "write", id, RecordPath(id), ConversationJson(conv))}
        /\ hist' = [hist EXCEPT
             !.ops = @ + 1,
             !.overlapped = @ \/ pendingIo # {},
             !.touched = @ \cup {id},
             !.lastOn = { l \in @ : l.id # id } \cup {[id |-> id, n |-> clock]},
             !.defaultEntries = IF Omitted(conversation_id)
                                THEN Append(@, conv.entries[Len(conv.entries)]) ELSE @,
             !.afterReset = IF \E r \in hist.resetDone : r.id = id THEN @ \cup {id} ELSE @,
             !.resetDone = { r \in @ : r.id # id }]
  /\ clock' = clock + 1
  /\ UNCHANGED <<pc, request, diffAnalysis, fileContents, toolCall, loopVars, maxDepth,
                 disk, backendVars, gitRuns, returned, exit, backend>>

\* reset-conversation with resetConversation up to its await: the
\* conversation has left the memory and unlink has been called.
ResetStart(conversation_id) ==
  /\ pc = "store"
  /\ hist.ops < MaxOps
  /\ LET id == ResolveConvId(conversation_id, clock)
     IN /\ convId' = id
        /\ conversations' = MapDelete(conversations, id)
        /\ pendingIo' = pendingIo \cup {IoOp(clock, "unlink", id, RecordPath(id), <<>>)}
        /\ hist' = [hist EXCEPT
             !.ops = @ + 1,
             !.resets = @ + 1,
             !.overlapped = @ \/ pendingIo # {},
             !.touched = @ \cup {id},
             !.lastOn = { l \in @ : l.id # id } \cup {[id |-> id, n |-> clock]},
             !.defaultEntries = IF Omitted(conversation_id) THEN <<>> ELSE @,
             !.absentResets = IF Absent(id) THEN @ \cup {clock} ELSE @,
             !.resetDone = { r \in @ : r.id # id }]
  /\ clock' = clock + 1
  /\ UNCHANGED <<pc, request, conversationContext, diffAnalysis, fileContents, toolCall,
                 loopVars, maxDepth, disk, backendVars, gitRuns, returned, exit, backend>>

\* A file operation settles, and with it the await of saveConversation or
\* of deleteConversationFile: both catch what the file system raises.
IoSettle(io, fault) ==
  /\ pc = "store"
  /\ io \in pendingIo
  /\ fault => ~hist.faulted
  /\ disk' = IF io.op = "write" THEN WriteFile(disk, io.path, io.data, fault)
             ELSE Unlink(disk, io.path, fault)
  /\ pendingIo' = pendingIo \ {io}
  /\ hist' = [hist EXCEPT
       !.faulted = @ \/ fault,
       !.resetDone = IF /\ io.op = "unlink"
                        /\ [id |-> io.id, n |-> io.n] \in hist.lastOn
                        /\ ~(\E o \in pendingIo \ {io} : o.id = io.id)
                     THEN @ \cup {[id |-> io.id, fault |-> fault]} ELSE @]
  /\ UNCHANGED <<pc, setupVars, loopVars, maxDepth, conversations, clock, backendVars,
                 gitRuns, returned, exit, backend>>

InitStore ==
  /\ pc = "store"
  /\ request = NoRequest
  /\ maxDepth = MaxCap
  /\ Fresh

NextStore ==
  \/ \E conversation_id \in StoreIds, file_paths \in StoreFilePaths :
       AskAppend(conversation_id, file_paths)
  \/ \E conversation_id \in StoreIds : ResetStart(conversation_id)
  \/ \E io \in pendingIo, fault \in BOOLEAN : IoSettle(io, fault)

SpecStore == InitStore /\ [][NextStore]_vars

(***************************************************************************)
(* The direct tools on their own, over backend results of every shape and  *)
(* a backend client that is absent, open or closed when the tool is called.*)
(***************************************************************************)
ImagePng == <<"image/png">>
ResourceUri == <<"file:///r">>

\* Content items: well-formed ones, and ones that lack a field.
McpItems ==
  { McpItem("text", Some(<<"o", "k">>), <<>>, <<>>, None),
    McpItem("text", Some(<<>>), <<>>, <<>>, None),
    McpItem("text", None, <<>>, <<>>, None),
    McpItem("image", None, <<"d">>, ImagePng, None),
    McpItem("image", None, <<"d">>, <<>>, None),
    McpItem("image", None, <<>>, ImagePng, None),
    McpItem("resource", None, <<>>, <<>>, Some([text |-> <<"r">>, uri |-> ResourceUri])),
    McpItem("resource", None, <<>>, <<>>, Some([text |-> <<>>, uri |-> ResourceUri])),
    McpItem("resource", None, <<>>, <<>>, Some([text |-> <<>>, uri |-> <<>>])),
    McpItem("resource", None, <<>>, <<>>, None),
    McpItem("audio", None, <<"d">>, <<>>, None) }

\* Backend results: every list of items without the error flag, and the
\* lists of at most one item with the error flag the backend sets on a
\* failed tool.
McpResults ==
  {NoMcpResult}
  \cup { [content |-> Some(items), isError |-> FALSE] :
           items \in UNION { [1..k -> McpItems] : k \in 0..MaxItems } }
  \cup { [content |-> Some(items), isError |-> TRUE] :
           items \in UNION { [1..k -> McpItems] : k \in 0..1 } }

ToolOutcomes ==
  { BackendOutcome("connect_fail", NoMcpResult),
    BackendOutcome("call_throw", NoMcpResult) }
  \cup { BackendOutcome("result", r) : r \in McpResults }

InitTools ==
  /\ pc = "idle"
  /\ request = NoRequest
  /\ maxDepth = MaxCap
  /\ FreshHandler
  /\ claudeClient \in {"null", "open", "closed"}

NextTools ==
  \/ \E outcome \in ToolOutcomes : ClaudeView(outcome) /\ UNCHANGED ioVars
  \/ \E outcome \in ToolOutcomes : ClaudeEdit(outcome) /\ UNCHANGED ioVars
  \/ \E outcome \in ToolOutcomes : ClaudeLs(outcome) /\ UNCHANGED ioVars
  \/ \E outcome \in ToolOutcomes : ClaudeGrep(outcome) /\ UNCHANGED ioVars
  \/ \E confirm \in ConfirmValues, outcome \in ToolOutcomes :
       ClaudeWrite(confirm, outcome) /\ UNCHANGED ioVars
  \/ \E confirm \in ConfirmValues, outcome \in ToolOutcomes :
       ClaudeBash(confirm, outcome) /\ UNCHANGED ioVars

SpecTools == InitTools /\ [][NextTools]_vars

(***************************************************************************)
(* The reading of the supplied files, over every bounded list of paths.    *)
(***************************************************************************)
FilePathLists ==
  UNION { [1..k -> {ReadablePath, UnreadablePath}] : k \in 0..MaxPaths }
FileRequests ==
  { Request(<<"q">>, file_paths, Some("c1"), None, None, None) :
      file_paths \in {None} \cup { Some(l) : l \in FilePathLists } }

InitFiles ==
  /\ pc = "idle"
  /\ request = NoRequest
  /\ maxDepth = 1
  /\ Fresh

NextFiles ==
  \/ \E req \in FileRequests : AskStart(req) /\ UNCHANGED ioVars
  \/ ReadFiles /\ UNCHANGED ioVars
  \/ \E output \in EngineOutputs : EngineCall(output) /\ UNCHANGED ioVars

SpecFiles == InitFiles /\ [][NextFiles]_vars

(***************************************************************************)
(* getConversationContext on its own, over stored conversations of up to   *)
(* MaxEntries entries and one longer than the default of maxEntries.       *)
(***************************************************************************)
EntryK(k, filePaths) == Entry(k, <<"q", ToString(k)>>, filePaths, <<"r", ToString(k)>>)
EntryFilePaths == {None, Some(<<>>), Some(<<ReadablePath, UnreadablePath>>)}
ContextConversations ==
  { [id |-> "c1", createdAt |-> 1, updatedAt |-> 1,
     entries |-> [k \in 1..n |-> EntryK(k, fp[k])]] :
      n \in 0..MaxEntries, fp \in [1..MaxEntries -> EntryFilePaths] }
  \cup { [id |-> "c1", createdAt |-> 1, updatedAt |-> 1,
          entries |-> [k \in 1..(ContextMaxEntries + 1) |-> EntryK(k, None)]] }

InitContext ==
  /\ pc = "idle"
  /\ request = NoRequest
  /\ maxDepth = 1
  /\ FreshRequest
  /\ claudeClient = "null"
  /\ pendingIo = {}
  /\ \E conv \in ContextConversations :
       /\ conversations = [c \in {"c1"} |-> conv]
       /\ disk = [f \in {RecordPath("c1")} |-> ConversationJson(conv)]

\* getConversationContext(conversation, maxEntries) called on the stored
\* conversation.
RenderContext(maxEntries) ==
  /\ pc = "idle"
  /\ conversationContext' = GetConversationContext(conversations["c1"], maxEntries)
  /\ exit' = "context"
  /\ pc' = "done"
  /\ UNCHANGED <<request, convId, diffAnalysis, fileContents, toolCall, loopVars, maxDepth,
                 storeVars, backendVars, gitRuns, returned>>

NextContext ==
  \/ \E maxEntries \in 0..(MaxEntries + 1) : RenderContext(maxEntries) /\ UNCHANGED ioVars
  \/ AskStart(Request(<<"q">>, None, Some("c1"), None, None, None)) /\ UNCHANGED ioVars
  \/ ReadFiles /\ UNCHANGED ioVars

SpecContext == InitContext /\ [][NextContext]_vars

(***************************************************************************)
(* The start of the server: the constructor of the store starts the load   *)
(* of the durable records and does not wait for it, setupServer waits 100  *)
(* ms and then takes requests.  A pending "load" is a record named by      *)
(* readdir that readFile has not delivered yet.                            *)
(***************************************************************************)
OtherConversation ==
  [id |-> "c2", createdAt |-> 1, updatedAt |-> 1,
   entries |-> <<Entry(1, <<"q1">>, None, <<"r1">>), Entry(2, <<"q2">>, None, <<"r2">>)>>]

\* A record that is not JSON, and a *.json entry readFile fails on.
CorruptRecord == <<"{">>
UnreadableRecord == <<"EISDIR", "">>

\* JSON.parse gives a conversation for the data readFile delivered.
IsConversationRecord(data) == Len(data) = 4

\* The directories a session can find at its start.
StartupDisks ==
  { d \in UNION { [fs -> {ConversationJson(StoredConversation),
                          ConversationJson(OtherConversation),
                          CorruptRecord, UnreadableRecord}] :
                    fs \in SUBSET {RecordPath("c1"), RecordPath("c2")} } :
      \A f \in DOMAIN d : IsConversationRecord(d[f]) => <<d[f][1]>> = f }

\* A mutation of the loop of loadAllConversations: it ends after the first
\* record it could set.
LoadedRecordFirstOnly(convs, data) ==
  IF IsConversationRecord(data) /\ DOMAIN convs = {}
  THEN MapSet(convs, ParseConversationJson(data).id, ParseConversationJson(data))
  ELSE convs

\* One turn of the loop of loadAllConversations: the record is parsed and
\* set under the id it holds; a failure of readFile or JSON.parse is logged.
LoadedRecord(convs, data) ==
  IF IsConversationRecord(data)
  THEN MapSet(convs, ParseConversationJson(data).id, ParseConversationJson(data))
  ELSE convs

InitStartup ==
  /\ pc = "starting"
  /\ request = NoRequest
  /\ maxDepth = MaxCap
  /\ FreshRequest
  /\ claudeClient = "null"
  /\ conversations = <<>>
  /\ disk \in StartupDisks
  /\ pendingIo = { IoOp(0, "load", "", f, <<>>) : f \in DOMAIN disk }

\* readFile delivers a record and the loop of loadAllConversations sets it.
LoadSettle(io) ==
  /\ pc \in {"starting", "store"}
  /\ io \in pendingIo
  /\ io.op = "load"
  /\ conversations' = IF io.path \in DOMAIN disk
                      THEN LoadedRecord(conversations, disk[io.path])
                      ELSE conversations
  /\ pendingIo' = pendingIo \ {io}
  /\ UNCHANGED <<pc, setupVars, loopVars, maxDepth, disk, clock, backendVars, gitRuns,
                 returned, exit, hist, backend>>

\* The 100 ms of setupServer are over: the server takes requests.
StartupTimer ==
  /\ pc = "starting"
  /\ pc' = "store"
  /\ UNCHANGED <<setupVars, loopVars, maxDepth, storeVars, backendVars, gitRuns,
                 returned, exit, ioVars>>

NextStartup ==
  \/ \E io \in pendingIo : LoadSettle(io)
  \/ StartupTimer
  \/ \E conversation_id \in {Some("c1"), Some("c2")} : AskAppend(conversation_id, None)
  \/ \E io \in { o \in pendingIo : o.op # "load" } : IoSettle(io, FALSE)

SpecStartup == InitStartup /\ [][NextStartup]_vars

(***************************************************************************)
(* The backend client: ensureClaudeClient called by the tool functions and *)
(* by the supervision tick, the handshake that completes later, the close  *)
(* of a connection and the shutdown on a signal.                           *)
(***************************************************************************)

\* The value of the module variable claudeClient for a reference.
ClientOf(ref) == IF ref = 0 THEN "null" ELSE "open"

InitClient ==
  /\ pc = "idle"
  /\ request = NoRequest
  /\ maxDepth = MaxCap
  /\ Fresh

\* ensureClaudeClient up to its await: when there is no usable client,
\* createClaudeClient spawns a child process and starts the handshake.  The
\* caller is a tool function or the tick of the supervision timer.
EnsureClaudeClient(caller) ==
  /\ backend.stage # "exited"
  /\ caller = "tick" => backend.timer
  /\ NeedsConnect(claudeClient)
  /\ backend.made < MaxConnections
  /\ backend' = [backend EXCEPT !.live = @ \cup {backend.made + 1},
                                !.attempts = @ \cup {backend.made + 1},
                                !.made = @ + 1,
                                !.raced = @ \/ backend.attempts # {},
                                !.duringShutdown = @ \/ backend.stage = "closing"]
  /\ UNCHANGED <<pc, setupVars, loopVars, maxDepth, storeVars, backendVars, gitRuns,
                 returned, exit, pendingIo, hist>>

\* The handshake of an attempt succeeds: createClaudeClient installs onclose
\* and returns, and ensureClaudeClient assigns the wrapper to claudeClient.
ConnectDone(id) ==
  /\ backend.stage # "exited"
  /\ id \in backend.attempts
  /\ backend' = [backend EXCEPT !.attempts = @ \ {id}, !.ref = id]
  /\ claudeClient' = ClientOf(id)
  /\ UNCHANGED <<pc, setupVars, loopVars, maxDepth, storeVars, backendCalls, gitRuns,
                 returned, exit, pendingIo, hist>>

\* The handshake of an attempt fails: createClaudeClient throws, the child is
\* gone and claudeClient keeps its value.
ConnectFail(id) ==
  /\ backend.stage # "exited"
  /\ id \in backend.attempts
  /\ backend' = [backend EXCEPT !.attempts = @ \ {id}, !.live = @ \ {id}]
  /\ UNCHANGED <<pc, setupVars, loopVars, maxDepth, storeVars, backendVars, gitRuns,
                 returned, exit, pendingIo, hist>>

\* An established connection closes: its transport.onclose sets claudeClient
\* to null, whichever connection claudeClient refers to.
ConnectionCloses(id) ==
  /\ backend.stage # "exited"
  /\ id \in backend.live \ backend.attempts
  /\ backend' = [backend EXCEPT !.live = @ \ {id}, !.ref = 0]
  /\ claudeClient' = ClientOf(0)
  /\ UNCHANGED <<pc, setupVars, loopVars, maxDepth, storeVars, backendCalls, gitRuns,
                 returned, exit, pendingIo, hist>>

\* A shutdown signal: stopClaudeSupervision clears the timer, then
\* closeClaudeClient starts to close the client claudeClient refers to; with
\* no client it returns at once and the process exits.
Shutdown ==
  /\ backend.stage = "running"
  /\ backend' = [backend EXCEPT !.timer = FALSE,
                                !.stage = IF backend.ref = 0 THEN "exited" ELSE "closing",
                                !.closing = backend.ref,
                                !.duringShutdown = backend.attempts # {}]
  /\ UNCHANGED <<pc, setupVars, loopVars, maxDepth, storeVars, backendVars, gitRuns,
                 returned, exit, pendingIo, hist>>

\* client.close() of the shutdown returns: that connection is closed,
\* claudeClient is set to null and the process exits.
CloseDone ==
  /\ backend.stage = "closing"
  /\ backend' = [backend EXCEPT !.live = @ \ {backend.closing}, !.ref = 0,
                                !.stage = "exited"]
  /\ claudeClient' = ClientOf(0)
  /\ UNCHANGED <<pc, setupVars, loopVars, maxDepth, storeVars, backendCalls, gitRuns,
                 returned, exit, pendingIo, hist>>

NextClient ==
  \/ EnsureClaudeClient("tool")
  \/ EnsureClaudeClient("tick")
  \/ \E id \in 1..MaxConnections : ConnectDone(id)
  \/ \E id \in 1..MaxConnections : ConnectFail(id)
  \/ \E id \in 1..MaxConnections : ConnectionCloses(id)
  \/ Shutdown
  \/ CloseDone

SpecClient == InitClient /\ [][NextClient]_vars

(***************************************************************************)
(* Properties.                                                             *)
(***************************************************************************)
LoopLeft == exit \in {"text", "fallback", "exhausted"}
LastIteration == history[Len(history)]
AllWithCalls(n) == \A i \in 1..n : history[i].calls > 0
TextOnly(r) == r.calls = 0 /\ Len(Trim(r.text)) > 0

RECURSIVE SumCalls(_)
SumCalls(h) == IF Len(h) = 0 THEN 0 ELSE Head(h).calls + SumCalls(Tail(h))

FunctionCallsOf(output) == SelectSeq(output, IsFunctionCall)

\* C1: for every cap N >= 1 and whatever the engine answers, one invocation
\* issues at most N engine calls, and it returns a response to the caller.
C1_AtMostCapEngineCalls ==
  /\ [](Len(engineRequests) <= maxDepth)
  /\ <>(pc = "done" /\ IsSome(returned))

C1_Witness ==
  /\ pc = "done"
  /\ exit = "exhausted"
  /\ maxDepth = MaxCap
  /\ Len(engineRequests) = maxDepth
  /\ IsSome(returned)

\* C2: if the engine requests a tool call on each of iterations 1..k-1 and
\* returns non-blank text without a call on iteration k <= N, the loop ends
\* after exactly k engine calls: it goes on after each of the k-1 iterations
\* with calls (unless an engine call raises), the trace and the input items hold their calls, and the text
\* of iteration k is the answer text.
C2_StopsAtFirstTextOnlyIteration ==
  /\ (Len(history) >= 1 /\ Len(history) < maxDepth /\ AllWithCalls(Len(history)))
       => (~LoopLeft /\ (exit = "" => pc \in {"engine", "dispatch"}))
  /\ (Len(history) >= 1 /\ AllWithCalls(Len(history) - 1) /\ TextOnly(LastIteration))
       => /\ exit = "text"
          /\ pc \in {"saving", "done"}
          /\ Len(engineRequests) = Len(history)
          /\ depth = Len(history)
          /\ Len(allToolResults) = SumCalls(history)
          /\ Len(allToolResults) >= Len(history) - 1
          /\ Len(inputItems) = Len(engineRequests[1].input) + SumCalls(history)
          /\ responseText = WithToolsUsed(LastIteration.text, allToolResults)
          /\ (pc = "done" => Get(returned).content[1] = responseText)

C2_Witness ==
  /\ pc = "done"
  /\ exit = "text"
  /\ Len(history) = MaxCap
  /\ AllWithCalls(MaxCap - 1)
  /\ TextOnly(LastIteration)

\* C3: the loop accepts an iteration's text as the answer only if the
\* response of that iteration holds no function call and its text is not
\* blank after trimming; a text that comes with a call is never accepted.
C3_AcceptsOnlyTextWithoutCalls ==
  exit = "text" =>
    /\ FunctionCallsOf(response.output) = <<>>
    /\ ~hasFunctionCalls
    /\ Len(Trim(CurrentResponseText(response.output))) > 0
    /\ responseText = WithToolsUsed(CurrentResponseText(response.output), allToolResults)
    /\ \A i \in 1..Len(history) :
         (history[i].calls > 0 \/ Len(Trim(history[i].text)) = 0) => i < Len(history)

C3_Witness ==
  /\ exit = "text"
  /\ Len(history) >= 2
  /\ history[1].calls > 0
  /\ Len(Trim(history[1].text)) > 0
  /\ Len(allToolResults) > 0

\* C4: a blank iteration without calls that is not the last permitted one
\* (depth < N) is followed by another engine call; the fallback message ends
\* the loop only on the last permitted iteration (depth = N).
C4_FallbackOnlyAtCap ==
  exit = "fallback" => depth = maxDepth

\* C5: when the loop ends at the cap without an iteration of no calls and
\* non-blank text, also when the last iteration requested calls, the final
\* text is the fallback message followed by the tool trace, and the caller
\* gets a response.
C5_ExhaustionGivesFallback ==
  (exit = "exhausted" \/ (exit = "fallback" /\ depth = maxDepth)) =>
    /\ responseText = WithToolsUsed(FallbackMessage, allToolResults)
    /\ (pc = "done" => IsSome(returned) /\ Get(returned).content[1] = responseText)

\* C6: in every iteration each function-call item of the response gives
\* exactly one tool-output item, in order, with the identifier of the call
\* (the engine's when it gave one, a generated one otherwise); the outputs
\* folded into the input items are those.
C6_OneOutputPerCall ==
  /\ pc = "dispatch" =>
       LET done == FunctionCallsOf(SubSeq(response.output, 1, idx - 1))
       IN /\ Len(toolOutputItems) = Len(done)
          /\ \A j \in 1..Len(done) :
               /\ toolOutputItems[j].type = "function_call_output"
               /\ IF IsSome(done[j].id)
                  THEN toolOutputItems[j].call_id = Get(done[j].id)
                  ELSE toolOutputItems[j].call_id \in GeneratedCallIds
          /\ (NextCallIdx(response.output, idx) = 0
                => Len(toolOutputItems) = Len(FunctionCallsOf(response.output)))
  /\ (pc = "engine" /\ depth >= 1) =>
       /\ Len(toolOutputItems) = Len(FunctionCallsOf(response.output))
       /\ Len(inputItems) >= Len(toolOutputItems)
       /\ SubSeq(inputItems, Len(inputItems) - Len(toolOutputItems) + 1, Len(inputItems))
            = toolOutputItems

C6_Witness ==
  /\ pc = "engine"
  /\ depth >= 1
  /\ Len(toolOutputItems) = 2
  /\ toolOutputItems[1].call_id \in GeneratedCallIds
  /\ toolOutputItems[2].call_id = "fc_2"
  /\ Len(inputItems) > Len(engineRequests[1].input) + 2

\* The last item the for loop dispatched.
LastDispatched == response.output[idx - 1]
Unconfirmed(arguments) == arguments.confirm # Some(Yes)

\* C7: a write or bash call whose confirm is absent or not "yes" gets an
\* error result and never reaches the backend, in the loop and through the
\* direct tools.
C7_GateBeforeBackend ==
  /\ \A c \in backendCalls : c.name \in {"Write", "Bash"} => c.confirm = Some(Yes)
  /\ (/\ pc = "dispatch"
      /\ idx > 1
      /\ LastDispatched.name \in {"claude_write", "claude_bash"}
      /\ LastDispatched.arguments.parse = "ok"
      /\ Unconfirmed(LastDispatched.arguments.value))
       => /\ IsSome(result)
          /\ Get(result).isError
          /\ toolOutputItems[Len(toolOutputItems)].text = ResultText(Get(result))
  /\ (/\ IsSome(toolCall)
      /\ Get(toolCall).fn \in {"writeFile", "runBash"}
      /\ Unconfirmed(Get(toolCall).arguments))
       => /\ Get(returned).isError = "true"
          /\ backendCalls = {}
          /\ claudeClient = "null"

C7_Witness ==
  /\ pc = "dispatch"
  /\ idx > 1
  /\ LastDispatched.name = "claude_bash"
  /\ Unconfirmed(LastDispatched.arguments.value)
  /\ \E c \in backendCalls : c.name = "Write"

\* The references the documentation allows: one or more letters, digits
\* and / _ . - ~ ^, the first not being '-'.
AllowedRef(s) ==
  /\ s # <<>>
  /\ \A i \in 1..Len(s) :
       s[i] \in Letters \/ s[i] \in Digits \/ s[i] \in {"/", "_", ".", "-", "~", "^"}
  /\ Head(s) # "-"

\* C8: executeDiff spawns git only if `from` is an allowed reference and
\* `to`, when given (a non-empty string), is one too, and then every
\* argument after the base flags is an allowed reference, '--' or HEAD;
\* every allowed reference passes the validation.
C8_NoSpawnUnlessRefsValid ==
  /\ Len(gitRuns) <= 1
  /\ gitRuns # <<>> =>
       /\ AllowedRef(Get(request.from))
       /\ TruthyOpt(request.to) => AllowedRef(Get(request.to))
       /\ \A i \in (Len(BaseArgs) + 1)..Len(gitRuns[1]) :
            AllowedRef(gitRuns[1][i]) \/ gitRuns[1][i] = DashDash
  /\ (/\ pc # "diff"
      /\ AllowedRef(Get(request.from))
      /\ TruthyOpt(request.to) => AllowedRef(Get(request.to)))
       => Len(gitRuns) = 1

C8_Witness ==
  /\ gitRuns # <<>>
  /\ request.from = Some(HeadTilde1)
  /\ request.to = Some(FeatureX)
  /\ pc = "files"

InitialStore ==
  /\ conversations = [c \in {"c1"} |-> StoredConversation]
  /\ disk = [f \in {RecordPath("c1")} |-> ConversationJson(StoredConversation)]

\* C9: when executeDiff fails, the invocation returns the error text at
\* once: no engine call, no tool dispatched, git run at most once, and the
\* conversation store as it was.
C9_DiffFailureIsTerminal ==
  exit = "diff_error" =>
    /\ pc = "done"
    /\ IsSome(returned)
    /\ Len(Get(returned).content) = 1
    /\ StartsWith(Get(returned).content[1], <<"Error: ">>)
    /\ engineRequests = <<>>
    /\ allToolResults = <<>>
    /\ backendCalls = {}
    /\ Len(gitRuns) <= 1
    /\ InitialStore

C9_Witness ==
  /\ exit = "diff_error"
  /\ pc = "done"
  /\ Len(gitRuns) = 1
  /\ convId = "c1"

\* C10: when an engine call raises, at the first iteration or a later one,
\* the invocation returns one error response and the conversation of the
\* resolved id is unchanged in memory and on disk, also after tool calls
\* of earlier iterations ran.
C10_EngineErrorSavesNothing ==
  exit = "engine_error" =>
    /\ pc = "done"
    /\ IsSome(returned)
    /\ Len(Get(returned).content) = 1
    /\ StartsWith(Get(returned).content[1], <<"Error: ">>)
    /\ InitialStore

C10_Witness ==
  /\ exit = "engine_error"
  /\ depth >= 2
  /\ convId = "c1"
  /\ \E c \in backendCalls : c.name = "Write"


(***************************************************************************)
(* The conversation store.                                                 *)
(***************************************************************************)
\* The id a request is answered under, from its conversation_id argument.
RequestedId ==
  IF request.conversation_id = None \/ request.conversation_id = Some("")
  THEN "default_1" ELSE Get(request.conversation_id)

\* The entries the conversation of the request held before the invocation.
EntriesBefore == IF RequestedId = "c1" THEN StoredConversation.entries ELSE <<>>

\* The invocation left the loop and returned: one entry more under the
\* resolved id, made of the request and of the returned text, and the id
\* returned with it.
C11_OneEntryPersisted ==
  /\ RequestedId \in DOMAIN conversations
  /\ LET entries == conversations[RequestedId].entries
         last == entries[Len(entries)]
     IN /\ Len(entries) = Len(EntriesBefore) + 1
        /\ SubSeq(entries, 1, Len(EntriesBefore)) = EntriesBefore
        /\ last.input = request.input
        /\ last.filePaths = request.file_paths
        /\ last.response = Get(returned).content[1]
  /\ Len(Get(returned).content) = 2
  /\ Get(returned).content[2] = <<"\n\n---\nConversation ID: ", RequestedId>>
  /\ \A id \in DOMAIN conversations \ {RequestedId} :
       id = "c1" /\ conversations[id] = StoredConversation

\* C11 as stated: also when the loop was left by the fallback, the final
\* text of an invocation without tool calls is the engine's text.
C11_FinalTextIsEngineTextUnlessCalls ==
  (pc = "done" /\ LoopLeft) =>
    /\ C11_OneEntryPersisted
    /\ SumCalls(history) = 0 => Get(returned).content[1] = LastIteration.text

\* C11 (amended): an invocation that leaves the loop by success or by
\* exhaustion appends exactly one entry to the conversation of the resolved
\* id (the task text, the file paths supplied, the final text returned) and
\* returns that id; when it left by success and the engine requested no tool
\* call, the final text is the engine's text.
C11_PersistsWhatItReturns ==
  (pc = "done" /\ LoopLeft) =>
    /\ C11_OneEntryPersisted
    /\ (exit = "text" /\ SumCalls(history) = 0)
         => Get(returned).content[1] = LastIteration.text

C11_Witness ==
  /\ pc = "done"
  /\ exit = "text"
  /\ Len(history) = 1
  /\ SumCalls(history) = 0
  /\ convId = "c1"
  /\ request.file_paths = Some(<<ReadablePath, UnreadablePath>>)
  /\ Len(conversations["c1"].entries) = 2
  /\ conversations["c1"].entries[2].response = LastIteration.text

\* C12: after appends that each completed before the next operation began,
\* with no reset and no failure of the file system, a store constructed
\* fresh from the durable records holds the conversations of the memory,
\* each with the same ordered entries.
C12_FreshStoreEqualsMemory ==
  (pendingIo = {} /\ ~hist.overlapped /\ ~hist.faulted /\ hist.resets = 0) =>
    LET fresh == LoadAllConversations(disk)
    IN /\ DOMAIN fresh = DOMAIN conversations
       /\ \A id \in DOMAIN conversations : fresh[id].entries = conversations[id].entries

\* C13: a reset of an id that does not exist (not in memory, no durable
\* record, nothing pending for it) leaves the memory and the durable records
\* as they are, when it starts and when its unlink settles.
C13_ResetOfAbsentIdChangesNothing ==
  [][ /\ \A conversation_id \in StoreIds :
           (ResetStart(conversation_id) /\ Absent(ResolveConvId(conversation_id, clock)))
             => (conversations' = conversations /\ disk' = disk)
      /\ \A io \in pendingIo, fault \in BOOLEAN :
           (IoSettle(io, fault) /\ io.n \in hist.absentResets)
             => (conversations' = conversations /\ disk' = disk) ]_vars

\* A settled reset of `id` took the conversation from the memory and from
\* what a fresh store would load.
ResetTookEffect(id) ==
  /\ id \notin DOMAIN conversations
  /\ id \notin DOMAIN LoadAllConversations(disk)

\* The request answered in this step follows a settled reset of its id and
\* creates the conversation anew with its one entry.
AppendAfterResetCreates ==
  \A conversation_id \in StoreIds, file_paths \in StoreFilePaths :
    (/\ AskAppend(conversation_id, file_paths)
     /\ \E r \in hist.resetDone : r.id = ResolveConvId(conversation_id, clock))
      => /\ Len(conversations'[convId'].entries) = 1
         /\ conversations'[convId'].entries[1].timestamp = clock
         /\ conversations'[convId'].createdAt = clock

C15_AppendOnly ==
  [][ \A id \in DOMAIN conversations :
        IF id \in DOMAIN conversations'
        THEN LET a == conversations[id]
                 b == conversations'[id]
             IN /\ b.createdAt = a.createdAt
                /\ Len(b.entries) \in {Len(a.entries), Len(a.entries) + 1}
                /\ SubSeq(b.entries, 1, Len(a.entries)) = a.entries
                /\ Len(b.entries) = Len(a.entries) => b = a
                /\ Len(b.entries) = Len(a.entries) + 1 =>
                     /\ b.updatedAt = clock
                     /\ b.updatedAt > a.updatedAt
                     /\ b.entries[Len(b.entries)].timestamp = clock
                     /\ convId' = id
        ELSE \E conversation_id \in StoreIds :
               ResetStart(conversation_id) /\ convId' = id ]_vars

C15_Witness ==
  /\ "c1" \in DOMAIN conversations
  /\ Len(conversations["c1"].entries) = 3
  /\ conversations["c1"].entries[1] = StoredConversation.entries[1]
  /\ conversations["c1"].createdAt = StoredConversation.createdAt
  /\ conversations["c1"].updatedAt = conversations["c1"].entries[3].timestamp

\* C16: once every file operation has settled, with no reset, no failure of
\* the file system and only the ids c1 and the default id in use, the
\* durable record of each id used equals its conversation in memory, however
\* the appends overlapped.
C16_OverlappingAppendsAllDurable ==
  (/\ pendingIo = {} /\ ~hist.faulted /\ hist.resets = 0
   /\ hist.touched \subseteq {"c1", "default_1"}) =>
    \A id \in hist.touched :
      /\ RecordPath(id) \in DOMAIN disk
      /\ ParseConversationJson(disk[RecordPath(id)]) = conversations[id]

\* part occurs in text.
Contains(text, part) ==
  \E i \in 1..(Len(text) - Len(part) + 1) : SubSeq(text, i, i + Len(part) - 1) = part

\* C17: every request and every reset that gives no conversation id works
\* on the one default id of the session, and the context of such a request
\* holds every entry written by the earlier requests without id since the
\* last reset without id.
C17_OneDefaultIdPerSession ==
  [][ /\ \A conversation_id \in {None, Some("")}, file_paths \in StoreFilePaths :
           AskAppend(conversation_id, file_paths) =>
             /\ convId' = "default_1"
             /\ \A i \in 1..Len(hist.defaultEntries) :
                  Contains(conversationContext', RenderEntry(hist.defaultEntries[i]))
             /\ conversations'["default_1"].entries =
                  Append(hist.defaultEntries, hist'.defaultEntries[Len(hist'.defaultEntries)])
      /\ \A conversation_id \in {None, Some("")} :
           ResetStart(conversation_id) =>
             /\ convId' = "default_1"
             /\ "default_1" \notin DOMAIN conversations' ]_vars

C17_Witness ==
  /\ convId = "default_1"
  /\ Len(hist.defaultEntries) = 2
  /\ hist.resets = 1
  /\ Contains(conversationContext, RenderEntry(hist.defaultEntries[1]))
  /\ Len(conversations["default_1"].entries) = 2

\* The record a fresh store would hold for id, None when it would hold none.
DurableRecordOf(d, id) ==
  IF id \in DOMAIN LoadAllConversations(d) THEN Some(LoadAllConversations(d)[id]) ELSE None

OtherUntouched(id) ==
  \A other \in (DOMAIN conversations \cup DOMAIN LoadAllConversations(disk)) \ {id} :
    /\ other \in DOMAIN conversations =>
         (other \in DOMAIN conversations' /\ conversations'[other] = conversations[other])
    /\ DurableRecordOf(disk', other) = DurableRecordOf(disk, other)

\* C18: no step of an append or of a reset on one id changes the
\* conversation in memory or the durable record of another id.
C18_OtherIdsUntouched ==
  [][ /\ \A conversation_id \in StoreIds, file_paths \in StoreFilePaths :
           AskAppend(conversation_id, file_paths) => OtherUntouched(convId')
      /\ \A conversation_id \in StoreIds :
           ResetStart(conversation_id) => OtherUntouched(convId')
      /\ \A io \in pendingIo, fault \in BOOLEAN :
           IoSettle(io, fault) => OtherUntouched(io.id) ]_vars

(***************************************************************************)
(* The diff builder.                                                       *)
(***************************************************************************)
\* C19: for valid refs git gets the four base flags followed by [from, to]
\* when `to` is given, whatever `unstaged` is, by [from, '--'] when `to` is
\* absent and `unstaged` is true or absent, and by [from, 'HEAD'] when `to`
\* is absent and `unstaged` is false; each ref is one element of the vector.
C19_ArgumentVector ==
  (Len(gitRuns) >= 1 /\ (IsSome(request.to) => AllowedRef(Get(request.to)))) =>
    LET flags == << <<"--no-pager">>, <<"diff">>, <<"--no-ext-diff">>, <<"--no-color">> >>
        from == Get(request.from)
    IN /\ Len(gitRuns) = 1
       /\ AllowedRef(from)
       /\ gitRuns[1] =
            flags \o
            (IF IsSome(request.to) THEN <<from, Get(request.to)>>
             ELSE IF request.unstaged \in {None, Some(TRUE)} THEN <<from, <<"-", "-">> >>
             ELSE <<from, <<"H", "E", "A", "D">> >>)

C19_Witness ==
  /\ Len(gitRuns) = 1
  /\ request.from = Some(FeatureX)
  /\ request.to = None
  /\ request.unstaged = Some(FALSE)
  /\ gitRuns[1][5] = FeatureX
  /\ gitRuns[1][6] = <<"H", "E", "A", "D">>

\* The lines of what git wrote: the pieces between newlines, without the
\* empty piece after the last newline.
DiffLines(out) ==
  IF out.lines[Len(out.lines)] = <<>> THEN Len(out.lines) + out.more - 1
  ELSE Len(out.lines) + out.more

\* C20: executeDiff returns every diff of at most 10,000 lines and fails
\* with the guidance message on every diff of more than 10,000 lines.
C20_LimitIsTenThousandLines ==
  [][ \A out \in DiffOutputs :
        (DiffRun(out) /\ ~out.threw /\ ~StderrIsFailure(out.stderr)) =>
          IF DiffLines(out) <= 10000
          THEN /\ pc' = "files"
               /\ returned' = None
               /\ diffAnalysis' = DiffAnalysisText(DiffResult(gitRuns'[1], out))
          ELSE /\ pc' = "done"
               /\ StartsWith(Get(returned').content[1], <<"Error: ", "Diff too large (">>) ]_vars



\* The content lines of a diff of a kind, and the files it names.
RECURSIVE ContentLinesOfKind(_, _)
ContentLinesOfKind(files, kind) ==
  IF Len(files) = 0 THEN 0
  ELSE Len(SelectSeq(Head(files).body, LAMBDA l : l.kind = kind))
       + ContentLinesOfKind(Tail(files), kind)
FilesNamed(files) == { files[i].name : i \in 1..Len(files) }

\* C21: the summary reports as insertions the added content lines, as
\* deletions the removed content lines (the +++ and --- file headers
\* excluded) and as files changed the distinct files of the diff --git
\* lines.
C21_SummaryCountsContentLines ==
  [][ \A files \in SummaryDiffs :
        DiffRun(GitOutputOf(files)) =>
          Contains(diffAnalysis',
                   << "\n**Summary:** ",
                      ToString(Cardinality(FilesNamed(files))), " files changed, ",
                      ToString(ContentLinesOfKind(files, "add")), " insertions(+), ",
                      ToString(ContentLinesOfKind(files, "del")), " deletions(-)" >>) ]_vars


(***************************************************************************)
(* The result normalizer and the tool functions.                           *)
(***************************************************************************)
\* C22: a backend result whose content is missing or an empty list is
\* normalized to exactly one text segment saying that no content was
\* received, with the error flag set.
C22_NoContentIsOneErrorSegment ==
  [][ \A outcome \in ToolOutcomes :
        /\ outcome.kind = "result"
        /\ \/ ~IsSome(outcome.mcpResult.content)
           \/ Len(Get(outcome.mcpResult.content)) = 0
        /\ \/ ClaudeView(outcome) \/ ClaudeEdit(outcome)
           \/ ClaudeLs(outcome) \/ ClaudeGrep(outcome)
        => returned' = Some(Returned(<<NoContentText>>, "true")) ]_vars

\* What the segment of one content item has to be: the text of a text item,
\* a placeholder with the media type of an image item, the text of a
\* resource item or else its locator, the serialized item for another type.
\* Items that lack the field their type requires are left open.
SegmentOf(item, seg) ==
  CASE item.type = "text" /\ IsSome(item.text) -> seg = Get(item.text)
    [] item.type = "image" /\ Truthy(item.data) /\ Truthy(item.mimeType) ->
         Contains(seg, item.mimeType)
    [] item.type = "resource" /\ IsSome(item.resource)
         /\ Truthy(Get(item.resource).text) -> seg = Get(item.resource).text
    [] item.type = "resource" /\ IsSome(item.resource)
         /\ ~Truthy(Get(item.resource).text) /\ Truthy(Get(item.resource).uri) ->
         seg = Get(item.resource).uri
    [] item.type \notin {"text", "image", "resource"} -> seg = JsonOfItem(item)
    [] OTHER -> TRUE

\* C23: a backend result with n >= 1 content items is normalized to n text
\* segments in the same order, each the segment of its item (text verbatim,
\* image placeholder naming the media type, resource text or locator,
\* serialized form otherwise), with the error flag false.
C23_OneSegmentPerItemInOrder ==
  [][ \A outcome \in ToolOutcomes :
        /\ outcome.kind = "result"
        /\ IsSome(outcome.mcpResult.content)
        /\ Len(Get(outcome.mcpResult.content)) >= 1
        /\ \/ ClaudeView(outcome) \/ ClaudeEdit(outcome)
           \/ ClaudeLs(outcome) \/ ClaudeGrep(outcome)
        => LET items == Get(outcome.mcpResult.content)
               r == Get(returned')
           IN /\ Len(r.content) = Len(items)
              /\ \A k \in 1..Len(items) : SegmentOf(items[k], r.content[k])
              /\ r.isError = "false" ]_vars

\* A tool function called through its tool, the gated ones with confirm "yes".
ToolFunctionStep(outcome) ==
  \/ ClaudeView(outcome) \/ ClaudeEdit(outcome)
  \/ ClaudeLs(outcome) \/ ClaudeGrep(outcome)
  \/ ClaudeWrite(Some(Yes), outcome) \/ ClaudeBash(Some(Yes), outcome)

\* C25: every tool function first ensures the backend connection (a backend
\* call is made only on an open client, re-established when it was absent or
\* closed), and when establishing it or the backend call fails the caller
\* gets a result with the error flag set: every call returns a result.
C25_ToolFunctionsConnectAndNeverRaise ==
  [][ /\ pc = "idle" /\ pc' = "done" /\ exit' = "tool"
        => LET call == Get(toolCall')
               ungated == \/ call.fn \notin {"writeFile", "runBash"}
                          \/ call.arguments.confirm = Some(Yes)
           IN /\ IsSome(returned')
              /\ backendCalls' # backendCalls => claudeClient' = "open"
              /\ claudeClient' # claudeClient
                   => claudeClient \in {"null", "closed"} /\ claudeClient' = "open"
              /\ ungated /\ backendCalls' = backendCalls
                   => /\ claudeClient' = claudeClient
                      /\ claudeClient \in {"null", "closed"}
                      /\ Get(returned').isError = "true"
                      /\ Len(Get(returned').content) = 1
      /\ \A outcome \in { o \in BackendOutcomes : o.kind # "result" } :
           ToolFunctionStep(outcome)
           => /\ Get(returned').isError = "true"
              /\ Len(Get(returned').content) = 1
              /\ outcome.kind = "call_throw" <=> backendCalls' # backendCalls ]_vars

\* The client was closed, establishing a new one failed, and claude-view
\* returned an error result without a backend call.
C25_Witness ==
  /\ pc = "done"
  /\ IsSome(toolCall) /\ Get(toolCall).fn = "viewFile"
  /\ claudeClient = "closed"
  /\ backendCalls = {}
  /\ IsSome(returned) /\ Get(returned).isError = "true"

(***************************************************************************)
(* The loop: failures of tool calls, the requests to the engine.           *)
(***************************************************************************)
\* The function call the for loop dispatches next.
NextCall == response.output[NextCallIdx(response.output, idx)]

\* The ways a tool call of the loop fails, and the text that tells it.
ArgumentsDoNotParse(item) == item.arguments.parse = "error"
UnknownToolName(item) ==
  item.name \notin {"claude_view", "claude_edit", "claude_ls", "claude_write",
                    "claude_bash", "claude_grep"}
MissingConfirmation(item) ==
  /\ item.name \in {"claude_write", "claude_bash"}
  /\ item.arguments.parse = "ok"
  /\ item.arguments.value.confirm # Some(Yes)
FailureText(item, outcome) ==
  IF ArgumentsDoNotParse(item) THEN <<"Error: ", "Unexpected token in JSON">>
  ELSE IF UnknownToolName(item) THEN <<"Unknown function: ", item.name>>
  ELSE IF MissingConfirmation(item)
    THEN (IF item.name = "claude_write"
          THEN <<"Write operation cancelled. User confirmation required.">>
          ELSE <<"Command execution cancelled. User confirmation required.">>)
  ELSE <<ErrorPrefixOf(ToolFunctionOf(item.name)),
         IF outcome.kind = "connect_fail" THEN "connect failed" ELSE "call failed">>

\* C24: a tool call of the loop that fails (unknown name, arguments that do
\* not parse, backend exception, missing confirmation) does not end the
\* invocation: its output item carries the error text, and when the
\* iteration ends every output item of it is appended to the input of the
\* next engine call, which is made unless the cap is reached.
C24_FailedCallIsFedBack ==
  [][ /\ \A outcome \in BackendOutcomes, generated \in GeneratedCallIds :
           /\ DispatchCall(outcome, generated)
           /\ \/ ArgumentsDoNotParse(NextCall) \/ UnknownToolName(NextCall)
              \/ MissingConfirmation(NextCall) \/ outcome.kind # "result"
           => /\ pc' = "dispatch" /\ exit' = "" /\ returned' = None
              /\ Len(toolOutputItems') = Len(toolOutputItems) + 1
              /\ SubSeq(toolOutputItems', 1, Len(toolOutputItems)) = toolOutputItems
              /\ toolOutputItems'[Len(toolOutputItems')].type = "function_call_output"
              /\ toolOutputItems'[Len(toolOutputItems')].text = FailureText(NextCall, outcome)
      /\ pc = "dispatch" /\ pc' # "dispatch" /\ Len(toolOutputItems) > 0
           => /\ inputItems' = inputItems \o toolOutputItems
              /\ pc' = IF LoopGuard(depth, maxDepth) THEN "engine" ELSE "saving"
              /\ pc' = "saving" => exit' = "exhausted"
      /\ pc = "engine" /\ pc' # "engine"
           => engineRequests'[Len(engineRequests')].input = inputItems ]_vars

\* The engine was called again with the error output of a call whose
\* arguments did not parse and with that of a call the backend rejected.
C24_Witness ==
  /\ Len(engineRequests) >= 2
  /\ LET input == engineRequests[Len(engineRequests)].input
     IN /\ \E k \in 1..Len(input) :
             /\ input[k].type = "function_call_output"
             /\ input[k].text = <<"Error: ", "Unexpected token in JSON">>
        /\ \E k \in 1..Len(input) :
             /\ input[k].type = "function_call_output"
             /\ input[k].text = <<"Error reading file: ", "call failed">>

(***************************************************************************)
(* The file contents of the input.                                         *)
(***************************************************************************)
\* The positions of a text where a file section starts, and the k-th
\* section: from its start to the token before the next start.
SectionStarts(text) == { k \in 1..Len(text) : text[k] = "\n## File: " }
SectionStart(text, k) ==
  CHOOSE s \in SectionStarts(text) :
    Cardinality({ t \in SectionStarts(text) : t < s }) = k - 1
SectionK(text, k) ==
  SubSeq(text, SectionStart(text, k),
         IF k = Cardinality(SectionStarts(text)) THEN Len(text)
         ELSE SectionStart(text, k + 1) - 1)
RequestedPaths == IF IsSome(request.file_paths) THEN Get(request.file_paths) ELSE <<>>

\* C26: the file contents hold exactly one section per supplied path, in
\* the order given: headed by the path, with the content of a readable file
\* and an error note for an unreadable one; the reading never ends the
\* invocation, and the engine is called with these file contents.
C26_OneSectionPerPath ==
  [][ /\ pc = "files"
        => /\ pc' = "engine" /\ returned' = None /\ exit' = ""
           /\ Cardinality(SectionStarts(fileContents')) = Len(RequestedPaths)
           /\ \A k \in 1..Len(RequestedPaths) :
                LET path == RequestedPaths[k]
                    section == SectionK(fileContents', k)
                    body == SubSeq(section, Len(path) + 2, Len(section))
                IN /\ SubSeq(section, 2, Len(path) + 1) = path
                   /\ IF path = ReadablePath
                      THEN /\ Contains(body, <<"l1", "\n", "l2", "\n", "l3">>)
                           /\ ~Contains(body, <<"\nError reading file: ">>)
                      ELSE /\ body[1] = "\nError reading file: "
                           /\ ~Contains(body, <<"l1">>)
      /\ pc = "engine" /\ pc' = "dispatch" /\ Len(RequestedPaths) > 0
        => LET input == engineRequests'[Len(engineRequests')].input
           IN /\ input[Len(input)].role = "system"
              /\ input[Len(input)].text = <<"## Files:\n">> \o fileContents ]_vars

\* The engine was called for a request whose paths are an unreadable file
\* between two readable ones.
C26_Witness ==
  /\ request.file_paths = Some(<<ReadablePath, UnreadablePath, ReadablePath>>)
  /\ Cardinality(SectionStarts(fileContents)) = 3
  /\ Len(engineRequests) = 1

\* C27: the first engine call of an invocation carries no previous response
\* id, and the call of iteration k > 1 carries the id of the response of
\* iteration k-1, also when that iteration had no tool call and no text.
C27_PreviousResponseId ==
  [][ Len(engineRequests') = Len(engineRequests) + 1
        => /\ engineRequests'[Len(engineRequests')].previous_response_id =
                IF Len(engineRequests) = 0 THEN None ELSE Some(response.id)
           /\ Len(engineRequests) > 0
                => /\ Len(history) = Len(engineRequests)
                   /\ response.id = ToString(Len(engineRequests))
                   /\ pc' = "dispatch" => response'.id # response.id ]_vars

\* The first iteration was blank, the second had a tool call, and the
\* second and third engine calls were made with the ids of their responses.
C27_Witness ==
  /\ Len(engineRequests) = 3
  /\ history[1].calls = 0
  /\ Len(Trim(history[1].text)) = 0
  /\ history[2].calls > 0
  /\ engineRequests[1].previous_response_id = None
  /\ engineRequests[2].previous_response_id = Some("1")
  /\ engineRequests[3].previous_response_id = Some("2")

\* The number of function calls a response asks for.
CallsRequested(output) ==
  Cardinality({ k \in 1..Len(output) : output[k].type = "function_call" })

\* C28: at most one engine call is in flight, and the call of iteration k+1
\* is made only after the response of iteration k was received and every
\* tool call it asked for has given its output: the request carries the
\* input of the request before followed by all outputs of that iteration.
C28_SequentialIterations ==
  [][ /\ Len(engineRequests) - Len(history) \in {0, 1}
      /\ Len(engineRequests') - Len(engineRequests) \in {0, 1}
      /\ Len(engineRequests') = Len(engineRequests) + 1
           => /\ pc = "engine"
              /\ Len(history) = Len(engineRequests)
              /\ engineRequests'[Len(engineRequests')].input = inputItems
              /\ Len(engineRequests) > 0
                   => /\ history[Len(history)].calls = CallsRequested(response.output)
                      /\ Len(toolOutputItems) = CallsRequested(response.output)
                      /\ inputItems =
                           engineRequests[Len(engineRequests)].input \o toolOutputItems ]_vars

\* The first response asked for three calls, and the second request carries
\* the three outputs.
C28_Witness ==
  /\ Len(engineRequests) = 2
  /\ history[1].calls = 3
  /\ Len(engineRequests[2].input) = Len(engineRequests[1].input) + 3

\* The function calls of a response, in the order the engine gave them.
CallItems(output) == SelectSeq(output, LAMBDA item : item.type = "function_call")

\* C29: the input items start with the user message (context and task),
\* then the diff item when a diff was made, then the files item when files
\* were supplied; afterwards the list only grows at its end, and what an
\* iteration appends is one output per function call of its response, in
\* the order of the calls.
C29_InputItemsGrowInOrder ==
  [][ /\ pc = "files"
        => inputItems' =
             << [type |-> "message", role |-> "user", call_id |-> "",
                 text |-> conversationContext \o request.input] >>
             \o (IF IsSome(request.from) /\ Len(Get(request.from)) > 0
                 THEN << [type |-> "message", role |-> "system", call_id |-> "",
                          text |-> diffAnalysis] >>
                 ELSE <<>>)
             \o (IF Len(RequestedPaths) > 0
                 THEN << [type |-> "message", role |-> "system", call_id |-> "",
                          text |-> <<"## Files:\n">> \o fileContents'] >>
                 ELSE <<>>)
      /\ pc # "files"
        => /\ Len(inputItems') >= Len(inputItems)
           /\ SubSeq(inputItems', 1, Len(inputItems)) = inputItems
      /\ pc # "files" /\ Len(inputItems') > Len(inputItems)
        => LET calls == CallItems(response.output)
               added == SubSeq(inputItems', Len(inputItems) + 1, Len(inputItems'))
           IN /\ Len(added) = Len(calls)
              /\ \A k \in 1..Len(calls) :
                   /\ added[k].type = "function_call_output"
                   /\ IF IsSome(calls[k].id) /\ Get(calls[k].id) # ""
                      THEN added[k].call_id = Get(calls[k].id)
                      ELSE added[k].call_id \in GeneratedCallIds ]_vars

\* A request with a diff and files whose input items are followed by the
\* outputs of the three calls of one response, in the order of the calls.
C29_Witness ==
  /\ Len(inputItems) = 6
  /\ inputItems[1].role = "user"
  /\ inputItems[2].text = diffAnalysis /\ Len(diffAnalysis) > 0
  /\ inputItems[3].text = <<"## Files:\n">> \o fileContents /\ Len(fileContents) > 0
  /\ <<inputItems[4].call_id, inputItems[5].call_id, inputItems[6].call_id>>
       = <<"fc_5", "fc_6", "fc_7">>

(***************************************************************************)
(* The tools-used section.                                                 *)
(***************************************************************************)
\* The name of the function call an output item answers: the engine gives
\* every call but the claude_bash one without confirm an id of its own.
CallNameOf(callId) ==
  IF \E output \in EngineOutputs : \E k \in 1..Len(output) : output[k].id = Some(callId)
  THEN LET output == CHOOSE o \in EngineOutputs :
                       \E k \in 1..Len(o) : o[k].id = Some(callId)
       IN output[CHOOSE k \in 1..Len(output) : output[k].id = Some(callId)].name
  ELSE "claude_bash"

\* The number of function calls requested over the iterations of a history.
RECURSIVE TotalCalls(_)
TotalCalls(h) == IF Len(h) = 0 THEN 0 ELSE Head(h).calls + TotalCalls(Tail(h))

\* The summary of a call as the section gives it, from the output item of
\* the call.
IsSummaryOf(summary, outputItem) ==
  /\ Len(summary) >= 3
  /\ summary[1] = "**"
  /\ summary[2] = CallNameOf(outputItem.call_id)
  /\ \/ /\ summary[3] = "** result:\n"
        /\ SubSeq(summary, 4, Len(summary)) = outputItem.text
     \/ /\ summary[3] = "** error: "
        /\ <<"Error: ">> \o SubSeq(summary, 4, Len(summary)) = outputItem.text

\* C30: when the loop is left, by an answer, the fallback or exhaustion, the
\* final text ends with the tools-used section when a function call was
\* requested in some iteration, holding one summary per requested call in
\* dispatch order, failed calls included; it has no such section when no
\* call was requested.  This text is what the handler returns.
C30_ToolsUsedSection ==
  [][ /\ pc = "dispatch" /\ pc' = "saving"
        => LET outputs == SelectSeq(inputItems',
                                    LAMBDA item : item.type = "function_call_output")
               section == ToolsUsedHeader \o Join(allToolResults', <<"\n\n">>)
               cut == Len(responseText') - Len(section)
           IN /\ exit' \in {"text", "fallback", "exhausted"}
              /\ Len(allToolResults') = Len(outputs)
              /\ \A k \in 1..Len(outputs) : IsSummaryOf(allToolResults'[k], outputs[k])
              /\ Len(outputs) = TotalCalls(history')
              /\ IF Len(outputs) = 0
                 THEN ~Contains(responseText', ToolsUsedHeader)
                 ELSE /\ cut >= 0
                      /\ SubSeq(responseText', cut + 1, Len(responseText')) = section
                      /\ ~Contains(SubSeq(responseText', 1, cut), ToolsUsedHeader)
      /\ pc = "saving" => Get(returned').content[1] = responseText ]_vars

\* The loop was left by exhaustion after calls of which one succeeded and
\* one failed, and the text returned holds the section.
C30_Witness ==
  /\ pc = "done"
  /\ exit = "exhausted"
  /\ \E k \in 1..Len(allToolResults) : allToolResults[k][3] = "** result:\n"
  /\ \E k \in 1..Len(allToolResults) : allToolResults[k][3] = "** error: "
  /\ IsSome(returned)
  /\ Contains(Get(returned).content[1], ToolsUsedHeader)

(***************************************************************************)
(* Error responses of the handler.                                         *)
(***************************************************************************)
\* C31: the response returned when the engine call raises or the diff
\* fails carries an error flag set to true.
C31_ErrorResponseIsFlagged ==
  pc = "done" /\ exit \in {"diff_error", "engine_error"}
    => IsSome(returned) /\ Get(returned).isError = "true"

(***************************************************************************)
(* The store: overlapping resets and appends, failed writes, startup.      *)
(***************************************************************************)
\* C35: when a reset of an id overlaps an append on the same id whose write
\* is in flight, then once every file operation has completed a durable
\* record of the id exists if and only if the memory holds a conversation
\* of it.  Stated for sessions that touch only "c1" and meet no fault of
\* the file system.
C35_ResetAndAppendAgree ==
  /\ pendingIo = {}
  /\ hist.overlapped
  /\ hist.resets > 0
  /\ ~hist.faulted
  /\ hist.touched = {"c1"}
  => (RecordPath("c1") \in DOMAIN disk <=> "c1" \in DOMAIN conversations)

\* C39: an append whose durable write fails does not raise: the memory
\* keeps the new entry and the handler returns its normal answer; after the
\* failed write the durable record differs from the conversation in memory,
\* after a write that succeeds it is that conversation.
C39_FailedWriteIsNotRaised ==
  [][ \A written \in BOOLEAN :
        Persist(written)
        => LET conv == conversations[convId]
               path == RecordPath(convId)
           IN /\ pc' = "done"
              /\ returned' = Some(Returned(<<responseText, ConversationIdText(convId)>>,
                                           "absent"))
              /\ conversations' = conversations
              /\ conv.entries[Len(conv.entries)].response = responseText
              /\ ~written
                   => /\ disk' = disk
                      /\ \/ path \notin DOMAIN disk'
                         \/ ParseConversationJson(disk'[path]) # conv
              /\ written
                   => /\ path \in DOMAIN disk'
                      /\ ParseConversationJson(disk'[path]) = conv ]_vars

\* The answer was returned, the entry is in memory, and the record of "c1"
\* is still the one of the session before.
C39_Witness ==
  /\ pc = "done"
  /\ exit = "text"
  /\ convId = "c1"
  /\ IsSome(returned) /\ Get(returned).content[1] = responseText
  /\ Len(conversations["c1"].entries) = 2
  /\ disk[RecordPath("c1")] = ConversationJson(StoredConversation)

\* C38: a backend result that reports an error and has content is never
\* normalized to a result whose error flag is false.
C38_BackendErrorStaysFlagged ==
  [][ \A outcome \in ToolOutcomes :
        /\ outcome.kind = "result"
        /\ outcome.mcpResult.isError
        /\ IsSome(outcome.mcpResult.content)
        /\ Len(Get(outcome.mcpResult.content)) >= 1
        /\ \/ ClaudeView(outcome) \/ ClaudeEdit(outcome)
           \/ ClaudeLs(outcome) \/ ClaudeGrep(outcome)
        => Get(returned').isError = "true" ]_vars

(***************************************************************************)
(* The rendered context.                                                   *)
(***************************************************************************)
\* The positions of a context where the rendering of an entry starts, and
\* the k-th rendering: from its start to the token before the next start.
QueryStarts(text) == { k \in 1..Len(text) : text[k] = "### User Query (" }
QueryStart(text, k) ==
  CHOOSE s \in QueryStarts(text) :
    Cardinality({ t \in QueryStarts(text) : t < s }) = k - 1
QueryK(text, k) ==
  SubSeq(text, QueryStart(text, k),
         IF k = Cardinality(QueryStarts(text)) THEN Len(text)
         ELSE QueryStart(text, k + 1) - 1)

\* The text renders exactly the last `count` entries, oldest first, each
\* with its input, its file paths when it has some and its response, and
\* is empty when count is 0.
RendersLast(text, entries, count) ==
  /\ Cardinality(QueryStarts(text)) = count
  /\ count = 0 => text = <<>>
  /\ \A k \in 1..count :
       LET e == entries[Len(entries) - count + k]
           part == QueryK(text, k)
       IN /\ part[2] = ToString(e.timestamp)
          /\ Contains(part, e.input \o <<"\n\n">>)
          /\ Contains(part, <<"### AI Response:\n">> \o e.response)
          /\ IF IsSome(e.filePaths) /\ Len(Get(e.filePaths)) > 0
             THEN Contains(part, <<"**Files analyzed:** ">>
                                 \o Join(Get(e.filePaths), <<", ">>))
             ELSE ~Contains(part, <<"**Files analyzed:** ">>)

MinOf(a, b) == IF a <= b THEN a ELSE b

\* C34: for a conversation of n entries and every maxEntries >= 0 the
\* context renders exactly the last min(maxEntries, n) entries, oldest
\* first, and is the empty text when it renders none; the handler puts the
\* context of maxEntries = 10 before the task in the user message.
C34_ContextRendersLastEntries ==
  [][ /\ \A maxEntries \in 0..(MaxEntries + 1) :
           RenderContext(maxEntries)
           => RendersLast(conversationContext', conversations["c1"].entries,
                          MinOf(maxEntries, Len(conversations["c1"].entries)))
      /\ pc = "idle" /\ pc' = "files"
           => RendersLast(conversationContext', conversations["c1"].entries,
                          MinOf(ContextMaxEntries, Len(conversations["c1"].entries)))
      /\ pc = "files"
           => inputItems'[1].text = conversationContext \o request.input ]_vars

\* The valid records of the durable storage, each under the id it holds.
ValidRecords ==
  { ParseConversationJson(disk[f]) : f \in { g \in DOMAIN disk : Len(disk[g]) = 4 } }
LoadPending == \E o \in pendingIo : o.op = "load"

\* C32: every valid record of an earlier session is in the memory before
\* the first request is handled, however long the load takes: the first
\* request on such an id has its entries as context and its append extends
\* the entries of the record.
C32_RecordsLoadedBeforeFirstRequest ==
  /\ pc = "store" /\ hist.ops = 0
       => \A c \in ValidRecords : c.id \in DOMAIN conversations /\ conversations[c.id] = c
  /\ pc = "store" /\ hist.ops = 1
       => \A c \in ValidRecords :
            /\ c.id = convId
            /\ \E o \in pendingIo : o.op = "write" /\ o.id = convId
            => /\ conversationContext # <<>>
               /\ Len(conversations[convId].entries) = Len(c.entries) + 1

\* The memory holds exactly the valid records, each under its id.
IndexIsValidRecords ==
  conversations = [id \in { c.id : c \in ValidRecords } |->
                     CHOOSE c \in ValidRecords : c.id = id]

\* C33: at startup a record that cannot be read or parsed is skipped: the
\* load goes on and the server starts, and when the load has ended every
\* valid record is in the memory under its id.
C33_InvalidRecordIsSkipped ==
  [][ /\ \A io \in pendingIo :
           LoadSettle(io) /\ Len(disk[io.path]) # 4
           => /\ conversations' = conversations
              /\ pendingIo' = pendingIo \ {io}
              /\ pc' = pc /\ exit' = "" /\ returned' = None
      /\ (~LoadPending /\ hist.ops = 0 => IndexIsValidRecords)' ]_vars

\* The server has started next to a record that is not JSON, and the valid
\* record beside it is in the memory.
C33_Witness ==
  /\ pc = "store"
  /\ ~LoadPending
  /\ hist.ops = 0
  /\ disk = [f \in {RecordPath("c1"), RecordPath("c2")} |->
               IF f = RecordPath("c1") THEN CorruptRecord
               ELSE ConversationJson(OtherConversation)]
  /\ DOMAIN conversations = {"c2"}
  /\ conversations["c2"] = OtherConversation


\* C36: at any time at most one live backend connection exists, also when
\* tool calls and the supervision tick call ensureClaudeClient concurrently
\* while no client is established; and the close of a connection other than
\* the one claudeClient refers to leaves a reference to a live connection
\* as it is.
C36_AtMostOneLiveConnection ==
  [][/\ Cardinality(backend'.live) <= 1
     /\ \A id \in 1..MaxConnections :
          ConnectionCloses(id) /\ backend.ref # id /\ backend.ref \in backend.live
            => backend'.ref = backend.ref]_vars

\* Without two attempts in flight at once there is at most one live
\* connection and claudeClient refers to it once the handshake is done.
C36_OneConnectionWithoutRace ==
  ~backend.raced =>
    /\ Cardinality(backend.live) <= 1
    /\ backend.ref # 0 => backend.live = {backend.ref}

\* C37: on a shutdown signal the supervision timer is stopped before the
\* backend client is closed, and when the process exits no backend
\* connection is left open, also when an attempt was in flight at the signal.
C37_ShutdownLeavesNoConnection ==
  /\ backend.stage # "running" => ~backend.timer
  /\ backend.stage = "exited" => backend.live = {}

\* The timer is stopped before the client is closed, and a shutdown during
\* which no attempt is in flight, after a session in which no two attempts
\* were in flight at once, leaves no connection open.
C37_ShutdownWithoutAttemptInFlight ==
  /\ backend.stage # "running" => ~backend.timer
  /\ backend.stage = "exited" /\ ~backend.raced /\ ~backend.duringShutdown
       => backend.live = {}

=============================================================================
